---- MODULE Spec2Model ----
(***************************************************************************)
(* Verification model of snake575/trading-bots.                            *)
(*                                                                         *)
(*  - TechnicalAnalysis.get_trades, the incremental fetch of the reference *)
(*    market's trades (src/example_bots/technical_analysis/bot.py)         *)
(*  - AnyToAny._get_market / _setup, market resolution                     *)
(*    (src/example_bots/any_to_any/bot.py)                                 *)
(*  - KrakenWallet._balance, balance with derived "used"                   *)
(*    (src/trading_bots/contrib/exchanges/kraken/clients.py)               *)
(*  - one KrakenTrading instance: the cached client, the parsers and the   *)
(*    unsupported operations (same file)                                   *)
(*                                                                         *)
(*  - AnyToAny._algorithm: the deposits, their conversion and withdrawal   *)
(*    (src/example_bots/any_to_any/bot.py)                                 *)
(*                                                                         *)
(*  - TechnicalAnalysis._algorithm: the position it opens and closes       *)
(*    (src/example_bots/technical_analysis/bot.py)                         *)
(*  - RelativeOrders._algorithm and SimpleLimit._algorithm                 *)
(*    (src/example_bots/relative_orders/bot.py, simple_limit/bot.py)       *)
(*                                                                         *)
(* Each component has its own specification (SpecTrades, SpecMarket,       *)
(* SpecBalance, SpecKraken, SpecDeposits, SpecPosition, SpecLimit); Spec   *)
(* is their interleaving.                                                  *)
(***************************************************************************)
EXTENDS Integers, Sequences, FiniteSets, TLC

\* ------------------------------------------------------------------ bounds
\* Trade dates are 1..MaxTime; get_trades is called with 0..MaxTime.
MaxTime == 2
\* The reference exchange holds at most MaxHist trades.
MaxHist == 3
\* trades_n = 1000 (bot.py:159,161): the page size that makes the loop go on.
\* Scaled down so that several full pages fit in MaxHist trades.
PageLimit == 2
\* BudaPublic().markets publishes at most MaxMarkets markets.
MaxMarkets == 3
\* Kraken reports at most MaxOrders open orders.
MaxOrders == 2
\* Total balances are 0..MaxTotal, in the smallest unit.
MaxTotal == 3
\* The bot calls request_withdrawal at most MaxRequests times.
MaxRequests == 3

VARIABLES
    \* ---- TechnicalAnalysis.get_trades
    history,          \* the reference exchange's trades, oldest first
    store,            \* store.hget('trades', market): <<>> is None / []
    pc,               \* "idle" | "fetch": position inside get_trades
    from_timestamp,   \* get_trades argument
    query_timestamp,  \* the cursor
    trades,           \* the accumulated list
    n_calls,          \* exchange calls made by the running get_trades
    loaded,           \* what _get_previous_trades returned to the running call
    outcome           \* how the last get_trades ended; forgotten as soon as
                      \* the exchange or the store changes behind it
VARIABLES
    \* ---- AnyToAny._setup
    buda_markets,     \* BudaPublic().markets as _get_market read it
    from_currency,    \* config['from']['currency']
    to_currency,      \* config['to']['currency']
    market,           \* self.market, NoMarket while unset
    side,             \* self.side: "none" | "buy" | "sell"
    buda,             \* self.buda: the trading clients created, by market
    setup             \* "none" | "done" | "NotImplementedError"
VARIABLES
    \* ---- KrakenWallet._balance
    currency,         \* self.currency of the wallet asked
    balance_result,   \* client.balance()["result"]: asset code -> total
    open_orders,      \* client.open_orders()["result"]["open"].values()
    balance           \* what _balance gave: a Balance, or the error raised

VARIABLES
    \* ---- one KrakenTrading instance (KrakenTrading, KrakenMarketBase, KrakenAuth)
    secret,           \* the configured credentials; "" when the secret is absent
    client,           \* the cached self.client, NoClient until constructed
    n_built,          \* how many times Kraken.Auth was constructed
    last_call,        \* the last operation: its argument or the exchange's
                      \* response, the error raised, the value returned
    order_id          \* the order_id the last _order or _cancel_order was
                      \* called with, None after any other operation

VARIABLES
    \* ---- AnyToAny: the deposits
    bot_pc,           \* "down", "idle", the step of _algorithm the bot is in,
                      \* or the error that ended _setup
    config,           \* the configuration: side, to_withdraw, from_address
    deposits,         \* self.deposits: id -> Deposit
    deposits_store,   \* the value of store['<from_currency>_deposits']
    start_timestamp_stored,  \* whether store['start_timestamp'] is set
    exchange_deposits,       \* the deposits the exchange lists: id -> deposit
    deposit_at,       \* the key the running loop over self.deposits is at, 0
                      \* when the loop is over
    placed_order,     \* the market order the bot waits for
    withdrawal_requests      \* the calls of request_withdrawal, in order

VARIABLES
    \* ---- TechnicalAnalysis: the position
    ta_pc,            \* "down" | "up"
    position,         \* self.position, None while the bot is down
    position_store,   \* the value of store['position'], None when not set
    last_run          \* what the last run of _algorithm did

VARIABLES
    \* ---- RelativeOrders and SimpleLimit
    limit_pc,         \* "down", "idle", or where _algorithm is
    limit_bot,        \* the bot, its configuration and the locals of _algorithm
    limit_calls       \* the calls made to the exchange in the running iteration

tradesVars == <<history, store, pc, from_timestamp, query_timestamp, trades,
                n_calls, loaded, outcome>>

marketVars == <<buda_markets, from_currency, to_currency, market, side, buda, setup>>

balanceVars == <<currency, balance_result, open_orders, balance>>

krakenVars == <<secret, client, n_built, last_call, order_id>>

depositVars == <<bot_pc, config, deposits, deposits_store, start_timestamp_stored,
                 exchange_deposits, deposit_at, placed_order, withdrawal_requests>>

positionVars == <<ta_pc, position, position_store, last_run>>

limitVars == <<limit_pc, limit_bot, limit_calls>>

vars == <<tradesVars, marketVars, balanceVars, krakenVars, depositVars, positionVars, limitVars>>

\* What the actions of one component leave alone.
notTradesVars == <<marketVars, balanceVars, krakenVars, depositVars, positionVars,
                   limitVars>>
notMarketVars == <<tradesVars, balanceVars, krakenVars, depositVars, positionVars,
                   limitVars>>
notBalanceVars == <<tradesVars, marketVars, krakenVars, depositVars, positionVars,
                    limitVars>>
notKrakenVars == <<tradesVars, marketVars, balanceVars, depositVars, positionVars,
                   limitVars>>
notDepositVars == <<tradesVars, marketVars, balanceVars, krakenVars, positionVars,
                    limitVars>>
notPositionVars == <<tradesVars, marketVars, balanceVars, krakenVars, depositVars,
                     limitVars>>
notLimitVars == <<tradesVars, marketVars, balanceVars, krakenVars, depositVars,
                  positionVars>>

\* ------------------------------------------------- TechnicalAnalysis: helpers
Times == 0..MaxTime
TradeDates == 1..MaxTime
\* Bitstamp's transaction 'type': '0' buy, '1' sell.
TradeTypes == {"0", "1"}

\* One raw Bitstamp transaction.
RawTrade(date, type) == [date |-> date, price |-> 1, amount |-> 1, type |-> type]

\* dict(timestamp=float(date), rate=float(price), amount=float(amount) * (+-1))
ParseTrade(t) ==
    [timestamp |-> t.date,
     rate      |-> t.price,
     amount    |-> t.amount * (IF t.type = "0" THEN 1 ELSE -1)]

\* dict(timestamp=from_timestamp, rate=0.0, amount=0.0)
NullEntry(ts) == [timestamp |-> ts, rate |-> 0, amount |-> 0]

\* The list comprehension of _get_trades_call over the trades it keeps.
ParseTrades(raw) == [i \in 1..Len(raw) |-> ParseTrade(raw[i])]

\* list.sort(key=itemgetter('timestamp')): a stable sort. The element at
\* index j goes to the place after the elements with a smaller timestamp and
\* the earlier elements with the same timestamp.
SortByTimestamp(s) ==
    LET place(v, j) == 1 + Cardinality({k \in 1..Len(v) :
                             \/ v[k].timestamp < v[j].timestamp
                             \/ v[k].timestamp = v[j].timestamp /\ k < j})
        sorted == {[i \in 1..Len(v) |-> v[CHOOSE j \in 1..Len(v) : place(v, j) = i]] :
                      v \in {s}}
    IN  CHOOSE r \in sorted : TRUE

Tail1(s) == IF s = <<>> THEN <<>> ELSE SubSeq(s, 2, Len(s))

\* self.reference.client.transactions(market_id, time_interval): the exchange
\* serves the trades newer than the cursor, oldest first, a page at a time.
\* The interval argument (line 193: 'day' or 'hour') only says how far back
\* the exchange looks; history holds the trades inside the widest interval.
transactions(cursor) ==
    LET newer == SelectSeq(history, LAMBDA t : t.date > cursor)
    IN  SubSeq(newer, 1, IF Len(newer) < PageLimit THEN Len(newer) ELSE PageLimit)

\* _get_trades_call: <<trades, last_timestamp>>
AdvanceCursor(last) == last + 1

KeepNewer(raw, cursor) == SelectSeq(raw, LAMBDA t : t.date > cursor)

get_trades_call(cursor) ==
    LET result ==
          {<<page, IF page # <<>>
                   THEN AdvanceCursor(page[Len(page)].timestamp)
                   ELSE cursor>> :
              page \in {SortByTimestamp(ParseTrades(KeepNewer(transactions(cursor),
                                                               cursor)))}}
    IN  CHOOSE r \in result : TRUE

\* kind: "none" | "returned" | "AssertionError" | "raised"; calls: the exchange
\* calls the get_trades made, the raising one not counted.
NoOutcome == [kind |-> "none", since |-> 0, value |-> <<>>, calls |-> 0]

Finished(kind, since, value, calls) ==
    [kind |-> kind, since |-> since, value |-> value, calls |-> calls]

\* ------------------------------------------------- TechnicalAnalysis: actions
InitTrades ==
    /\ history = <<>>
    /\ store = <<>>
    /\ pc = "idle"
    /\ from_timestamp = 0
    /\ query_timestamp = 0
    /\ trades = <<>>
    /\ n_calls = 0
    /\ loaded = <<>>
    /\ outcome = NoOutcome

\* A trade happens on the reference exchange (between two fetches).
ExchangeTrade ==
    /\ pc = "idle"
    /\ Len(history) < MaxHist
    /\ \E date \in TradeDates, type \in TradeTypes :
          /\ history # <<>> => history[Len(history)].date <= date
          /\ history' = Append(history, RawTrade(date, type))
    /\ outcome' = NoOutcome
    /\ UNCHANGED <<store, pc, from_timestamp, query_timestamp, trades, n_calls, loaded>>
    /\ UNCHANGED notTradesVars

\* reset_trades: self.store.hdel(*self.store_keys)
ResetTrades ==
    /\ pc = "idle"
    /\ store # <<>>
    /\ store' = <<>>
    /\ outcome' = NoOutcome
    /\ UNCHANGED <<history, pc, from_timestamp, query_timestamp, trades, n_calls, loaded>>
    /\ UNCHANGED notTradesVars

\* assert first_trade < last_trade
LoadAccepts(prev_trades) ==
    prev_trades # <<>> => prev_trades[1].timestamp < prev_trades[Len(prev_trades)].timestamp

\* Mutant of UseStored: the range test lets its ends in.
UseStoredInclusive(prev_trades, since) ==
    /\ prev_trades # <<>>
    /\ prev_trades[1].timestamp <= since
    /\ since <= prev_trades[Len(prev_trades)].timestamp

\* if first_trade < from_timestamp < last_trade
UseStored(prev_trades, since) ==
    /\ prev_trades # <<>>
    /\ prev_trades[1].timestamp < since
    /\ since < prev_trades[Len(prev_trades)].timestamp

\* get_trades, lines 137-160: load, validate, choose the start point.
GetTradesBegin ==
    /\ pc = "idle"
    /\ \E since \in Times :
          LET prev_trades == store
          IN  IF ~LoadAccepts(prev_trades)
              THEN /\ outcome' = Finished("AssertionError", since, <<>>, 0)
                   /\ UNCHANGED <<pc, from_timestamp, query_timestamp, trades, n_calls, loaded>>
              ELSE LET kept == IF UseStored(prev_trades, since) THEN prev_trades ELSE <<>>
                   IN  /\ from_timestamp' = since
                       /\ query_timestamp' = IF UseStored(prev_trades, since)
                                             THEN prev_trades[Len(prev_trades)].timestamp
                                             ELSE since
                       /\ trades' = Append(SelectSeq(kept, LAMBDA t : t.timestamp >= since),
                                           NullEntry(since))
                       /\ n_calls' = 0
                       /\ loaded' = prev_trades
                       /\ pc' = "fetch"
                       /\ UNCHANGED outcome
    /\ UNCHANGED <<history, store>>
    /\ UNCHANGED notTradesVars

\* Mutant of FetchAgain: the loop goes on until a page comes back empty.
FetchAgainUntilEmpty(trades_n) == trades_n > 0

\* while trades_n == 1000
FetchAgain(trades_n) == trades_n = PageLimit

\* return trades[1:]
Returned(all) == Tail1(all)

\* get_trades, lines 161-186: one turn of the loop, and the return after the
\* last one.
FetchPage ==
    /\ pc = "fetch"
    /\ \E call \in {get_trades_call(query_timestamp)} :
       \E merged \in {SortByTimestamp(trades \o call[1])} :
          LET last_trades == call[1]
          IN  /\ store' = merged
              /\ IF FetchAgain(Len(last_trades))
                 THEN /\ pc' = "fetch"
                      /\ trades' = merged
                      /\ query_timestamp' = call[2]
                      /\ n_calls' = n_calls + 1
                      /\ UNCHANGED <<from_timestamp, loaded, outcome>>
                 ELSE /\ pc' = "idle"
                      /\ outcome' = Finished("returned", from_timestamp, Returned(merged),
                                             n_calls + 1)
                      /\ loaded' = <<>>
                      /\ trades' = <<>>
                      /\ query_timestamp' = 0
                      /\ n_calls' = 0
                      /\ from_timestamp' = 0
    /\ UNCHANGED history
    /\ UNCHANGED notTradesVars

\* The exchange call raises: logged and re-raised (lines 168-170).
FetchRaises ==
    /\ pc = "fetch"
    /\ pc' = "idle"
    /\ outcome' = Finished("raised", from_timestamp, <<>>, n_calls)
    /\ loaded' = <<>>
    /\ trades' = <<>>
    /\ query_timestamp' = 0
    /\ n_calls' = 0
    /\ from_timestamp' = 0
    /\ UNCHANGED <<history, store>>
    /\ UNCHANGED notTradesVars

NextTrades ==
    \/ ExchangeTrade
    \/ ResetTrades
    \/ GetTradesBegin
    \/ FetchPage
    \/ FetchRaises

\* ------------------------------------------------------ AnyToAny._setup
Currencies == {"BTC", "ETH", "CLP"}

\* Market(base, quote)
Market(base, quote) == [base |-> base, quote |-> quote]

NoMarket == Market("", "")

AllMarkets == {Market(b, q) : b, q \in Currencies} \ {Market(c, c) : c \in Currencies}

\* _get_market: the market, or the error raised.
get_market(markets, from, to) ==
    LET bases == {m.base : m \in markets}
        quotes == {m.quote : m \in markets}
    IN  IF from \in bases /\ to \in quotes
        THEN [error |-> "", market |-> Market(from, to)]
        ELSE IF from \in quotes /\ to \in bases
             THEN [error |-> "", market |-> Market(to, from)]
             ELSE [error |-> "NotImplementedError", market |-> NoMarket]

InitMarket ==
    /\ buda_markets = {}
    /\ from_currency = ""
    /\ to_currency = ""
    /\ market = NoMarket
    /\ side = "none"
    /\ buda = {}
    /\ setup = "none"

\* _setup, lines 49-62, of a newly constructed bot: read the configuration (a
\* conversion between two currencies), resolve the market, set the side,
\* create the Buda trading client. An error raised by _get_market leaves
\* _setup at line 57.
Setup ==
    /\ \E markets \in SUBSET AllMarkets, from \in Currencies, to \in Currencies :
          /\ Cardinality(markets) <= MaxMarkets
          /\ from # to
          /\ buda_markets' = markets
          /\ from_currency' = from
          /\ to_currency' = to
          /\ LET got == get_market(markets, from, to)
             IN  IF got.error # ""
                 THEN /\ setup' = got.error
                      /\ market' = NoMarket
                      /\ side' = "none"
                      /\ buda' = {}
                 ELSE /\ setup' = "done"
                      /\ market' = got.market
                      /\ side' = IF got.market.base = from THEN "sell" ELSE "buy"
                      /\ buda' = {got.market}
    /\ UNCHANGED notMarketVars

NextMarket ==
    \/ Setup

\* -------------------------------------------------- KrakenWallet._balance
\* Mutant of common_currencies: two exchange codes with the same common code.
common_currencies_shared_code ==
    [XXBT |-> "BTC", XETH |-> "BTC", XXLM |-> "XLM", ZUSD |-> "USD"]

\* KrakenBase.common_currencies
common_currencies ==
    [XXBT |-> "BTC", XETH |-> "ETH", XXLM |-> "XLM", ZUSD |-> "USD"]

\* BaseClient._parse_common_currency(currency, reverse): a code the table does
\* not hold stands for itself.
parse_common_currency(code, reverse) ==
    IF reverse
    THEN IF \E k \in DOMAIN common_currencies : common_currencies[k] = code
         THEN CHOOSE k \in DOMAIN common_currencies : common_currencies[k] = code
         ELSE code
    ELSE IF code \in DOMAIN common_currencies THEN common_currencies[code] ELSE code

\* self.markets of the Kraken client.
KrakenMarkets == {Market("BTC", "USD"), Market("ETH", "BTC"), Market("ETH", "USD")}

\* _get_market_from_pair: the markets of the pair (one at most); none is KeyError.
get_market_from_pair(pair) ==
    {m \in KrakenMarkets :
        parse_common_currency(m.base, TRUE) \o parse_common_currency(m.quote, TRUE) = pair}

WalletCurrencies == {"BTC", "USD", "ETH"}

\* The pairs open orders are reported on; Kraken also lists pairs that are not
\* among self.markets.
OrderPairs == {"XXBTZUSD", "XETHXXBT", "XXLMZUSD"}

\* Order volumes, in the smallest unit of the base currency, and prices.
Volumes == {1, 2}
Prices == {3}

OpenOrder == [pair : OrderPairs, type : {"buy", "sell"}, vol : Volumes, price : Prices]

\* The assets client.balance() may report.
Assets == {"XXBT", "ZUSD"}

\* Balance(total, free, used)
Balance(total, free, used, info) ==
    [kind |-> "Balance", total |-> total, free |-> free, used |-> used, info |-> info]

NoBalance(kind) == [kind |-> kind, total |-> 0, free |-> 0, used |-> 0, info |-> ""]

\* Mutant of CountOrder: an order is counted whatever the currencies of its
\* market are.
CountOrderAnyCurrency(acc, order, o_market, wallet) ==
    IF order.type = "sell"
    THEN <<acc[1] - order.vol, acc[2] + order.vol>>
    ELSE <<acc[1] - order.vol * order.price, acc[2] + order.vol * order.price>>

\* Mutant of CountOrder: a BUY order frees amount * price and uses the amount.
CountOrderUsedWithoutPrice(acc, order, o_market, wallet) ==
    IF order.type = "sell" /\ wallet = o_market.base
    THEN <<acc[1] - order.vol, acc[2] + order.vol>>
    ELSE IF order.type = "buy" /\ wallet = o_market.quote
         THEN <<acc[1] - order.vol * order.price, acc[2] + order.vol>>
         ELSE acc

\* The body of the loop over the open orders (lines 159-168), on <<free, used>>.
CountOrder(acc, order, o_market, wallet) ==
    IF order.type = "sell" /\ wallet = o_market.base
    THEN <<acc[1] - order.vol, acc[2] + order.vol>>
    ELSE IF order.type = "buy" /\ wallet = o_market.quote
         THEN <<acc[1] - order.vol * order.price, acc[2] + order.vol * order.price>>
         ELSE acc

\* The loop over the open orders: <<free, used>> after the first n orders.
RECURSIVE CountOrders(_, _, _, _)
CountOrders(total, orders, n, wallet) ==
    IF n = 0 THEN <<total, 0>>
    ELSE CountOrder(CountOrders(total, orders, n - 1, wallet), orders[n],
                    CHOOSE m \in get_market_from_pair(orders[n].pair) : TRUE, wallet)

\* The Balance returned when the asset is not in the response (lines 151-153).
BalanceNotFound == Balance(0, 0, 0, "balance not found")

InitBalance ==
    /\ currency = ""
    /\ balance_result = <<>>
    /\ open_orders = <<>>
    /\ balance = NoBalance("none")

\* The account's total of an asset changes on the exchange.
ExchangeSetsTotal ==
    /\ \E asset \in Assets, total \in 0..MaxTotal :
          balance_result' = [a \in DOMAIN balance_result \cup {asset} |->
                                IF a = asset THEN total ELSE balance_result[a]]
    /\ currency' = ""
    /\ balance' = NoBalance("none")
    /\ UNCHANGED open_orders
    /\ UNCHANGED notBalanceVars

\* An order of the account is opened on the exchange.
ExchangeOpensOrder ==
    /\ Len(open_orders) < MaxOrders
    /\ \E order \in OpenOrder : open_orders' = Append(open_orders, order)
    /\ currency' = ""
    /\ balance' = NoBalance("none")
    /\ UNCHANGED balance_result
    /\ UNCHANGED notBalanceVars

\* _balance of the wallet of one currency: lines 145-173.
FetchBalance ==
    /\ \E wallet \in WalletCurrencies :
          LET asset == parse_common_currency(wallet, TRUE)
          IN  /\ currency' = wallet
              /\ balance' =
                   IF asset \notin DOMAIN balance_result
                   THEN BalanceNotFound
                   ELSE IF \E i \in 1..Len(open_orders) :
                              get_market_from_pair(open_orders[i].pair) = {}
                        THEN NoBalance("KeyError")
                        ELSE LET counted == CountOrders(balance_result[asset], open_orders,
                                                        Len(open_orders), wallet)
                             IN  Balance(balance_result[asset], counted[1], counted[2], "")
    /\ UNCHANGED <<balance_result, open_orders>>
    /\ UNCHANGED notBalanceVars

NextBalance ==
    \/ ExchangeSetsTotal
    \/ ExchangeOpensOrder
    \/ FetchBalance

\* ------------------------------------------------ one KrakenTrading instance
\* Python's None: the value of a field that is unknown.
None == [none |-> TRUE]

\* Money(amount, currency)
Money(amount, code) == [amount |-> amount, currency |-> code]

\* self.market of the instance.
kraken_market == Market("BTC", "USD")

\* The credentials the configuration may hold; "" is an absent secret.
Secrets == {"", "s1", "s2"}

NoClient == [credentials |-> "none"]

\* Kraken.Auth(**self.credentials, **self.client_params)
KrakenAuthClient(credentials) == [credentials |-> credentials]

\* BaseClient.check_credentials(): the error it raises, "" when it returns.
check_credentials(credentials) ==
    IF credentials = "" THEN "CredentialsMissing" ELSE ""

\* Mutant of client_property: the client is constructed at every access.
client_property_not_cached(cached, credentials) ==
    IF check_credentials(credentials) # ""
    THEN [client |-> cached, error |-> check_credentials(credentials), checked |-> TRUE,
          built |-> 0]
    ELSE [client |-> KrakenAuthClient(credentials), error |-> "", checked |-> TRUE,
          built |-> 1]

\* KrakenAuth.client, a cached_property (lines 74-77): the cached client when
\* there is one; otherwise check_credentials(), which raises when the secret
\* is absent, and then the construction, whose result is cached. Nothing is
\* cached when check_credentials raises.
client_property(cached, credentials) ==
    IF cached # NoClient
    THEN [client |-> cached, error |-> "", checked |-> FALSE, built |-> 0]
    ELSE IF check_credentials(credentials) # ""
         THEN [client |-> cached, error |-> check_credentials(credentials),
               checked |-> TRUE, built |-> 0]
         ELSE [client |-> KrakenAuthClient(credentials), error |-> "", checked |-> TRUE,
               built |-> 1]

\* The record of an operation.
Call(op, arg, error, value, checked) ==
    [op |-> op, arg |-> arg, error |-> error, value |-> value, checked |-> checked]

NoCall == Call("none", None, "", None, FALSE)

\* The operations Kraken does not support.
UnsupportedOps == {"trading_fees", "trades_since", "deposits_since",
                   "withdrawals_since", "cancel_orders"}

\* What each of them raises: _trading_fees (line 86), _trades_since (line 127),
\* _deposits_since (line 187), _withdrawals_since (line 201), _cancel_orders
\* (line 254).
unsupported_raises(op) ==
    CASE op = "trading_fees" -> "NotSupported"
      [] op = "trades_since" -> "NotImplementedError"
      [] op = "deposits_since" -> "NotSupported"
      [] op = "withdrawals_since" -> "NotSupported"
      [] op = "cancel_orders" -> "NotSupported"

\* The codes of the translation table, and codes it does not hold.
ExchangeCodes == DOMAIN common_currencies
CommonCodes == {common_currencies[k] : k \in ExchangeCodes}
CurrencyCodes == ExchangeCodes \cup CommonCodes \cup {"ZEUR", "LTC"}

\* The pairs _get_market_from_pair is asked for.
Pairs == OrderPairs \cup {"XETHZUSD", "XBTUSD", "ZUSDXXBT", "BTCUSD"}

\* ---- _parse_ticker
\* Prices are whole numbers of a unit fine enough that half of a sum of two
\* of them is a whole number (the division of a Decimal by 2 is exact).
TickerPrices == {100, 102}

\* The keys of Kraken's ticker that _parse_ticker reads: a ask, b bid, c last
\* trade, o opening price, h high, l low, p volume weighted average price.
TickerKeys == {"a", "b", "c", "o", "h", "l", "p"}

\* A ticker of the exchange with the given keys: a, b and c are <<price, ...>>,
\* h, l and p are <<today, last 24 hours>>, o is a price.
TickerPayload(keys, bid, ask) ==
    [k \in keys |->
        CASE k = "b" -> <<bid, 1, 1>>
          [] k = "a" -> <<ask, 1, 1>>
          [] k = "c" -> <<bid, 1>>
          [] k = "o" -> 100
          [] k = "h" -> <<102, 104>>
          [] k = "l" -> <<100, 98>>
          [] k = "p" -> <<100, 102>>]

\* The tickers the exchange answers with: bid, ask and last are always given.
TickerPayloads ==
    {TickerPayload({"a", "b", "c"} \cup opt, bid, ask) :
        opt \in SUBSET {"o", "h", "l", "p"}, bid \in TickerPrices, ask \in TickerPrices}

\* What a parser gives: the value returned or the error raised.
Result(value) == [error |-> "", value |-> value]
Raises(error) == [error |-> error, value |-> None]

\* Mutant of parse_ticker: mid is the bid.
parse_ticker_mid_is_bid(ticker, t_market) ==
    LET t_currency == t_market.quote
    IN  IF ~({"b", "a", "c", "h", "l", "p"} \subseteq DOMAIN ticker)
        THEN Raises("KeyError")
        ELSE Result(
               [market |-> t_market,
                bid |-> Money(ticker["b"][1], t_currency),
                ask |-> Money(ticker["a"][1], t_currency),
                mid |-> Money(ticker["b"][1], t_currency),
                last |-> Money(ticker["c"][1], t_currency),
                open |-> IF "o" \in DOMAIN ticker
                         THEN Money(ticker["o"], t_currency) ELSE None,
                high |-> Money(ticker["h"][2], t_currency),
                low |-> Money(ticker["l"][2], t_currency),
                close |-> Money(ticker["c"][1], t_currency),
                change |-> None, percentage |-> None, average |-> None,
                vwap |-> Money(ticker["p"][2], t_currency)])

\* _parse_ticker (lines 94-117). ticker["b"], ["a"], ["c"] (lines 96-98) and
\* ticker["h"], ["l"], ["p"] (lines 109, 110, 115) raise KeyError on a key
\* the ticker does not hold; only "o" is read with get (line 99).
parse_ticker(ticker, t_market) ==
    LET t_currency == t_market.quote
    IN  IF ~({"b", "a", "c", "h", "l", "p"} \subseteq DOMAIN ticker)
        THEN Raises("KeyError")
        ELSE Result(
               [market |-> t_market,
                bid |-> Money(ticker["b"][1], t_currency),
                ask |-> Money(ticker["a"][1], t_currency),
                mid |-> Money((ticker["b"][1] + ticker["a"][1]) \div 2, t_currency),
                last |-> Money(ticker["c"][1], t_currency),
                open |-> IF "o" \in DOMAIN ticker
                         THEN Money(ticker["o"], t_currency) ELSE None,
                high |-> Money(ticker["h"][2], t_currency),
                low |-> Money(ticker["l"][2], t_currency),
                close |-> Money(ticker["c"][1], t_currency),
                change |-> None, percentage |-> None, average |-> None,
                vwap |-> Money(ticker["p"][2], t_currency)])

\* ---- _parse_order
\* BaseClient.safe_money(dictionary, key, currency): the Money of the field, or
\* None when the dictionary does not hold the key.
safe_money(d, key, s_currency) ==
    IF key \in DOMAIN d THEN Money(d[key], s_currency) ELSE None

\* The values of the enums Side and OrderType.
Sides == {"buy", "sell"}
OrderTypes == {"limit", "market"}

\* order["descr"], with or without its price.
Descr(type, ordertype, pair, keys) ==
    [k \in {"type", "ordertype", "pair"} \cup keys |->
        CASE k = "type" -> type
          [] k = "ordertype" -> ordertype
          [] k = "pair" -> pair
          [] k = "price" -> 3]

\* order["oflags"], a comma delimited list, as the set of the flags it lists:
\* flags.find(flag) >= 0 is flag \in oflags.
OrderFlags == {"fciq", "fcib"}

\* One order of query_orders: vol, vol_exec, fee and oflags are given or not.
OrderPayload(keys, descr, vol, vol_exec, oflags) ==
    [k \in {"descr", "opentm", "status", "cost", "price"} \cup keys |->
        CASE k = "descr" -> descr
          [] k = "opentm" -> 1
          [] k = "status" -> "open"
          [] k = "cost" -> 0
          [] k = "price" -> 4
          [] k = "vol" -> vol
          [] k = "vol_exec" -> vol_exec
          [] k = "fee" -> 1
          [] k = "oflags" -> oflags]

OrderPayloads ==
    {OrderPayload(volkeys \cup feekeys, Descr(type, ordertype, pair, pricekeys),
                  vol, vol_exec, oflags) :
        volkeys \in SUBSET {"vol", "vol_exec"},
        feekeys \in {{}, {"fee", "oflags"}},
        pricekeys \in SUBSET {"price"},
        type \in Sides, ordertype \in {"limit", "stop-loss"},
        pair \in {"XXBTZUSD", "XXLMZUSD"},
        vol \in {2}, vol_exec \in {0, 1}, oflags \in SUBSET OrderFlags}

\* Mutant of fee_of: the base currency is looked for first.
fee_of_base_first(order, o_market) ==
    IF "fee" \notin DOMAIN order THEN None
    ELSE IF "fcib" \in order["oflags"] THEN Money(order["fee"], o_market.base)
    ELSE IF "fciq" \in order["oflags"] THEN Money(order["fee"], o_market.quote)
    ELSE None

\* fee of lines 277 and 284-293: an amount in the currency the flags name,
\* None when the order has no fee or the flags name no currency.
fee_of(order, o_market) ==
    IF "fee" \notin DOMAIN order THEN None
    ELSE IF "fciq" \in order["oflags"] THEN Money(order["fee"], o_market.quote)
    ELSE IF "fcib" \in order["oflags"] THEN Money(order["fee"], o_market.base)
    ELSE None

\* The fields of the Order that do not depend on vol and vol_exec.
OrderOf(order, o_market, amount, filled, remaining) ==
    LET description == order["descr"]
        descr_price == safe_money(description, "price", o_market.quote)
        descr_price2 == IF descr_price = None \/ descr_price.amount = 0
                        THEN safe_money(description, "price2", o_market.quote)
                        ELSE descr_price
        price == IF descr_price2 = None \/ descr_price2.amount = 0
                 THEN safe_money(order, "price", o_market.quote)
                 ELSE descr_price2
    IN  [id |-> IF "id" \in DOMAIN order THEN order["id"] ELSE None,
         market |-> o_market,
         type |-> IF description["ordertype"] \in OrderTypes
                  THEN description["ordertype"] ELSE None,
         side |-> description["type"],
         status |-> order["status"],
         amount |-> amount,
         remaining |-> remaining,
         filled |-> filled,
         cost |-> safe_money(order, "cost", o_market.quote),
         fee |-> fee_of(order, o_market),
         price |-> price,
         timestamp |-> order["opentm"]]

\* Mutant of parse_order: remaining is the amount.
parse_order_remaining_is_amount(order) ==
    IF order["descr"]["type"] \notin Sides THEN Raises("ValueError")
    ELSE IF get_market_from_pair(order["descr"]["pair"]) = {} THEN Raises("KeyError")
    ELSE LET o_market == CHOOSE m \in get_market_from_pair(order["descr"]["pair"]) : TRUE
             amount == safe_money(order, "vol", o_market.base)
             filled == safe_money(order, "vol_exec", o_market.base)
         IN  IF amount = None \/ filled = None THEN Raises("TypeError")
             ELSE Result(OrderOf(order, o_market, amount, filled, amount))

\* _parse_order (lines 264-309). Side(...) raises ValueError on an unknown
\* side (line 266), _get_market_from_pair raises KeyError (line 272), and
\* amount - filled raises TypeError when one of them is None (line 276).
parse_order(order) ==
    IF order["descr"]["type"] \notin Sides THEN Raises("ValueError")
    ELSE IF get_market_from_pair(order["descr"]["pair"]) = {} THEN Raises("KeyError")
    ELSE LET o_market == CHOOSE m \in get_market_from_pair(order["descr"]["pair"]) : TRUE
             amount == safe_money(order, "vol", o_market.base)
             filled == safe_money(order, "vol_exec", o_market.base)
         IN  IF amount = None \/ filled = None THEN Raises("TypeError")
             ELSE Result(OrderOf(order, o_market, amount, filled,
                                    Money(amount.amount - filled.amount, o_market.base)))

\* ---- the lists of orders
\* A transaction identifier of the exchange: a string, written so that it can
\* be compared with None.
TxId(txid) == [txid |-> txid]

\* The identifiers the exchange files its orders under.
TxIds == {TxId("OA"), TxId("OB")}

\* The orders of a list: a well formed one, and one without the volume
\* executed, which _parse_order fails on.
ListedPayloads ==
    {OrderPayload({"vol", "vol_exec"}, Descr("buy", "limit", "XXBTZUSD", {"price"}), 2, 0, {}),
     OrderPayload({"vol"}, Descr("sell", "limit", "XXBTZUSD", {"price"}), 2, 0, {})}

\* result["open"] and result["closed"] of the exchange, a dict of the orders
\* by their identifier, as the sequence of its items.
OrderQueries ==
    {<<>>}
      \cup {<<[txid |-> t, order |-> o]>> : t \in TxIds, o \in ListedPayloads}
      \cup {<<[txid |-> t, order |-> o], [txid |-> u, order |-> v]>> :
                t \in {TxId("OA")}, u \in {TxId("OB")}, o \in ListedPayloads, v \in ListedPayloads}

\* The orders query_orders is asked for, with what the exchange answers: any
\* payload for the first order, a payload of the lists for the other.
QueriedOrders ==
    {[txid |-> TxId("OA"), order |-> o] : o \in OrderPayloads}
      \cup {[txid |-> TxId("OB"), order |-> o] : o \in ListedPayloads}

\* limit of open_orders and closed_orders: None, or a number of orders.
Limits == {None, [orders |-> 1]}

\* since of closed_orders_since; the orders of the exchange were opened at 1.
Sinces == {1, 2}

\* order["id"] = txid (line 236)
with_id(order, txid) ==
    [k \in DOMAIN order \cup {"id"} |-> IF k = "id" THEN txid ELSE order[k]]

\* Each order of the list through _parse_order; the first error is raised.
parse_orders(orders) ==
    LET each == [i \in DOMAIN orders |-> parse_order(orders[i])]
        failed == {i \in DOMAIN orders : each[i].error # ""}
    IN  IF failed # {}
        THEN Raises(each[CHOOSE i \in failed : \A j \in failed : i <= j].error)
        ELSE Result([i \in DOMAIN orders |-> each[i].value])

\* _parse_orders_limit(orders, limit): the parsed orders, the first limit of
\* them when a limit is given.
parse_orders_limit(orders, limit) ==
    LET parsed == parse_orders(orders)
    IN  IF parsed.error # "" \/ limit = None THEN parsed
        ELSE Result(SubSeq(parsed.value, 1, IF Len(parsed.value) < limit.orders
                                            THEN Len(parsed.value) ELSE limit.orders))

\* _parse_orders_since(orders, since): the parsed orders opened at since or
\* later.
parse_orders_since(orders, since) ==
    LET parsed == parse_orders(orders)
    IN  IF parsed.error # "" THEN parsed
        ELSE Result(SelectSeq(parsed.value, LAMBDA o : o.timestamp >= since))

\* ---- _parse_placed_order
\* Decimal(token): the literals that are numbers, the literal of Decimal's
\* not-a-number, which Decimal accepts, and tokens Decimal rejects with
\* decimal.InvalidOperation.
DecimalLiterals == {"1", "3", "NaN"}

Decimal(token) ==
    CASE token = "1" -> 1
      [] token = "3" -> 3
      [] token = "NaN" -> "NaN"

\* The tokens of order["result"]["descr"]["order"], by position: a well formed
\* description is "buy 1 XBTUSD @ limit 3".
TokensAt(i) ==
    CASE i = 1 -> {"buy", "sell", "hold"}
      [] i = 2 -> {"1", "x", "NaN"}
      [] i = 3 -> {"XBTUSD"}
      [] i = 4 -> {"@"}
      [] i = 5 -> {"limit", "foo"}
      [] i = 6 -> {"3", "y"}

\* description.split() of the descriptions the exchange may answer with: the
\* six tokens, or the first few of them.
Descriptions ==
    {SubSeq(<<t1, t2, t3, t4, t5, t6>>, 1, n) :
        t1 \in TokensAt(1), t2 \in TokensAt(2), t3 \in TokensAt(3), t4 \in TokensAt(4),
        t5 \in TokensAt(5), t6 \in TokensAt(6), n \in 0..6}

\* _parse_placed_order (lines 311-346) on description = ....split():
\* description[0] raises IndexError on an empty description (line 313), an
\* unknown side raises ValueError (line 318), description[4] raises IndexError
\* which `except ValueError` does not catch (line 320), Decimal(...) raises
\* decimal.InvalidOperation (lines 325, 330), description[5] raises IndexError
\* (line 330).
parse_placed_order(description, p_market) ==
    IF Len(description) < 1 THEN Raises("IndexError")
    ELSE IF description[1] \notin Sides THEN Raises("ValueError")
    ELSE IF Len(description) < 5 THEN Raises("IndexError")
    ELSE IF description[2] \notin DecimalLiterals THEN Raises("InvalidOperation")
    ELSE IF Len(description) < 6 THEN Raises("IndexError")
    ELSE IF description[6] \notin DecimalLiterals THEN Raises("InvalidOperation")
    ELSE Result(
           [id |-> TxId("TX1"),
            market |-> p_market,
            type |-> IF description[5] \in OrderTypes THEN description[5] ELSE None,
            side |-> description[1],
            status |-> "open",
            amount |-> Money(Decimal(description[2]), p_market.base),
            remaining |-> None, filled |-> None, cost |-> None, fee |-> None,
            price |-> Money(Decimal(description[6]), p_market.quote)])

\* ---- the operations of the instance
\* No credentials are configured until ConfigureCredentials.
InitKraken ==
    /\ secret = ""
    /\ client = NoClient
    /\ n_built = 0
    /\ last_call = NoCall
    /\ order_id = None

\* The configuration's credentials are replaced.
ConfigureCredentials ==
    /\ \E s \in Secrets : s # secret /\ secret' = s
    /\ last_call' = NoCall
    /\ order_id' = None
    /\ UNCHANGED <<client, n_built>>
    /\ UNCHANGED notKrakenVars

\* An operation that reads self.client and then parses the exchange's response:
\* the cached property first, the response only when there is a client.
AuthenticatedCall(op, response, parsed) ==
    /\ \E got \in {client_property(client, secret)} :
          /\ client' = got.client
          /\ n_built' = n_built + got.built
          /\ last_call' = IF got.error # ""
                     THEN Call(op, None, got.error, None, got.checked)
                     ELSE Call(op, response, parsed.error, parsed.value, got.checked)
    /\ UNCHANGED secret
    /\ UNCHANGED notKrakenVars

\* _ticker (lines 88-92)
FetchTicker ==
    /\ \E ticker \in TickerPayloads :
          AuthenticatedCall("ticker", ticker, parse_ticker(ticker, kraken_market))
    /\ order_id' = None

\* _order (lines 228-230): the order is query_orders([order_id])["result"]
\* [order_id], the exchange's fields of the order filed under its identifier.
FetchOrder ==
    \E queried \in QueriedOrders :
        /\ AuthenticatedCall("order", queried.order, parse_order(queried.order))
        /\ order_id' = queried.txid

\* _open_orders (lines 232-238): each order of result["open"] is given the
\* identifier it is filed under before it is parsed.
FetchOpenOrders ==
    /\ \E query \in OrderQueries, limit \in Limits :
          AuthenticatedCall("open_orders", query,
                            parse_orders_limit(
                                [i \in DOMAIN query |-> with_id(query[i].order, query[i].txid)],
                                limit))
    /\ order_id' = None

\* _closed_orders (lines 240-243): the orders are result["closed"].values().
FetchClosedOrders ==
    /\ \E query \in OrderQueries, limit \in Limits :
          AuthenticatedCall("closed_orders", query,
                            parse_orders_limit([i \in DOMAIN query |-> query[i].order],
                                               limit))
    /\ order_id' = None

\* _closed_orders_since (lines 245-248): the same values().
FetchClosedOrdersSince ==
    /\ \E query \in OrderQueries, since \in Sinces :
          AuthenticatedCall("closed_orders_since", query,
                            parse_orders_since([i \in DOMAIN query |-> query[i].order],
                                               since))
    /\ order_id' = None

\* _place_order (lines 256-262)
PlaceOrder ==
    /\ \E description \in Descriptions :
          AuthenticatedCall("place_order", description,
                            parse_placed_order(description, kraken_market))
    /\ order_id' = None

\* _cancel_order (lines 250-251)
CancelOrder ==
    \E asked \in TxIds :
        /\ AuthenticatedCall("cancel_order", None, Result(None))
        /\ order_id' = asked

\* An operation Kraken does not support: it raises before self.client is read.
UnsupportedCall ==
    /\ \E op \in UnsupportedOps :
          last_call' = Call(op, None, unsupported_raises(op), None, FALSE)
    /\ order_id' = None
    /\ UNCHANGED <<secret, client, n_built>>
    /\ UNCHANGED notKrakenVars

\* _parse_common_currency(code, reverse), and the way back of what it gave.
TranslateCurrency ==
    /\ \E code \in CurrencyCodes, reverse \in BOOLEAN :
          last_call' = Call("parse_common_currency", [code |-> code, reverse |-> reverse], "",
                       [there |-> parse_common_currency(code, reverse),
                        back |-> parse_common_currency(
                                    parse_common_currency(code, reverse), ~reverse)],
                       FALSE)
    /\ order_id' = None
    /\ UNCHANGED <<secret, client, n_built>>
    /\ UNCHANGED notKrakenVars

\* _get_market_from_pair(pair) (lines 57-64)
GetMarketFromPair ==
    /\ \E pair \in Pairs :
          last_call' = IF get_market_from_pair(pair) = {}
                  THEN Call("get_market_from_pair", pair, "KeyError", None, FALSE)
                  ELSE Call("get_market_from_pair", pair, "",
                            CHOOSE m \in get_market_from_pair(pair) : TRUE, FALSE)
    /\ order_id' = None
    /\ UNCHANGED <<secret, client, n_built>>
    /\ UNCHANGED notKrakenVars

NextKraken ==
    \/ ConfigureCredentials
    \/ FetchTicker
    \/ FetchOrder
    \/ FetchOpenOrders
    \/ FetchClosedOrders
    \/ FetchClosedOrdersSince
    \/ PlaceOrder
    \/ CancelOrder
    \/ UnsupportedCall
    \/ TranslateCurrency
    \/ GetMarketFromPair

\* ------------------------------------------------------ AnyToAny: deposits
\* The market of the bot; the side _setup computed decides which of its
\* currencies is converted into the other.
bot_market == Market("BTC", "CLP")

from_currency_of(side_) == IF side_ = "sell" THEN bot_market.base ELSE bot_market.quote
to_currency_of(side_) == IF side_ = "sell" THEN bot_market.quote ELSE bot_market.base

\* A member of the enum TxStatus, and its name.
TxStatus(name) == [enum |-> "TxStatus", name |-> name]

\* repr(money): the string of a Money; Money.loads reads it back.
MoneyRepr(money) == [repr |-> <<money.amount, money.currency>>]

\* Amounts are whole numbers of half the smallest unit of their currency:
\* truncate_money drops the half.
truncate_money(money) == Money(2 * (money.amount \div 2), money.currency)

\* self.buda.min_order_amount, one smallest unit of the base currency.
MinOrderAmount == 2

\* Deposit(status, original_amount, converted_amount, converted_value,
\*         order_ids, withdrawal_pending)
Deposit(status, original_amount, converted_amount, converted_value, order_ids, withdrawal_pending) ==
    [status |-> status,
     original_amount |-> original_amount,
     converted_amount |-> converted_amount,
     converted_value |-> converted_value,
     order_ids |-> order_ids,
     withdrawal_pending |-> withdrawal_pending]

\* Deposit.serialize (lines 21-29)
Deposit_serialize(d) ==
    [status |-> d.status.name,
     original_amount |-> MoneyRepr(d.original_amount),
     converted_amount |-> MoneyRepr(d.converted_amount),
     converted_value |-> MoneyRepr(d.converted_value),
     orders |-> d.order_ids,
     withdrawal_pending |-> d.withdrawal_pending]

\* What Deposit.deserialize (lines 31-40) raises on a stored value, "" when
\* it returns: a Deposit object cannot be subscripted (TypeError), and the
\* mapping Deposit.serialize wrote has no 'order_ids' (KeyError, line 38).
Deposit_deserialize_error(stored) ==
    IF "repr" \notin DOMAIN stored["original_amount"] THEN "TypeError"
    ELSE IF "order_ids" \notin DOMAIN stored THEN "KeyError"
    ELSE ""

\* Deposit.deserialize of a mapping it accepts.
Deposit_deserialize(stored) ==
    Deposit(TxStatus(stored["status"]),
            Money(stored["original_amount"].repr[1], stored["original_amount"].repr[2]),
            Money(stored["converted_amount"].repr[1], stored["converted_amount"].repr[2]),
            Money(stored["converted_value"].repr[1], stored["converted_value"].repr[2]),
            stored["order_ids"],
            stored["withdrawal_pending"])

\* _save_deposits_to_store (lines 174-177): the value it sets.
serialized_deposits(deps) == [id \in DOMAIN deps |-> Deposit_serialize(deps[id])]

\* The deposits of the exchange: ids in the order they are made.
DepositIds == {1, 2}
DepositAmounts == {1, 2, 3}
Addresses == {"a1", "a2"}

\* The configurations of the bot.
Configs == [side : {"buy", "sell"}, to_withdraw : BOOLEAN, from_address : {"Any", "a1"}]

NoConfig == [side |-> "none", to_withdraw |-> FALSE, from_address |-> ""]

\* An empty mapping: {} in Python, also what store.get gives for no value
\* (`or {}`, line 171).
EmptyDict == [id \in {} |-> None]

NoOrder == [id |-> "", status |-> "none", amount |-> 0, filled |-> 0, cost |-> 0, fee |-> 0]

\* The next key of a dict after key `id`, 0 when there is none; keys are in
\* insertion order, which is the order of the ids.
NextKey(deps, id) ==
    IF \E k \in DOMAIN deps : k > id
    THEN CHOOSE k \in DOMAIN deps : k > id /\ \A j \in DOMAIN deps : j > id => k <= j
    ELSE 0

\* Mutant of remaining_of: nothing is left to convert.
remaining_of_none(d, side_) ==
    IF side_ = "buy" THEN Money(0, bot_market.base)
    ELSE Money(0, d.original_amount.currency)

\* Mutant of remaining_of: what was converted is not taken off.
remaining_of_original(d, side_) ==
    IF side_ = "buy" THEN Money(d.original_amount.amount, bot_market.base)
    ELSE d.original_amount

\* remaining of lines 109-111 and 138-140: what is left to convert; on the BUY
\* side the order book's quotation of it in the base currency, at the price
\* of one quote unit per base unit.
remaining_of(d, side_) ==
    LET remaining == Money(d.original_amount.amount - d.converted_amount.amount,
                           d.original_amount.currency)
    IN  IF side_ = "buy" THEN Money(remaining.amount, bot_market.base) ELSE remaining

\* The test of line 112: the deposit is confirmed and more than the minimum
\* order amount is left to convert.
to_be_converted(d, side_) ==
    d.status = TxStatus("OK") /\ remaining_of(d, side_).amount > MinOrderAmount

\* original_amount_is_converted of line 142: less than the minimum order
\* amount is left to convert.
original_amount_is_converted(d, side_) ==
    remaining_of(d, side_).amount < MinOrderAmount

InitDeposits ==
    /\ bot_pc = "down"
    /\ config = NoConfig
    /\ deposits = EmptyDict
    /\ deposits_store = EmptyDict
    /\ start_timestamp_stored = FALSE
    /\ exchange_deposits = EmptyDict
    /\ deposit_at = 0
    /\ placed_order = NoOrder
    /\ withdrawal_requests = <<>>

\* _setup from line 63 on, of a bot that is started or started again with the
\* configuration it has: the deposits are read from the store and
\* deserialized, and start_timestamp is stored when it is not yet. An error
\* of Deposit.deserialize leaves _setup at line 64.
StartBot ==
    /\ bot_pc \in {"down", "KeyError", "TypeError"}
    /\ IF config = NoConfig THEN config' \in Configs ELSE config' = config
    /\ IF \E id \in DOMAIN deposits_store :
             Deposit_deserialize_error(deposits_store[id]) # ""
       THEN /\ \E id \in DOMAIN deposits_store :
                  /\ Deposit_deserialize_error(deposits_store[id]) # ""
                  /\ \A j \in DOMAIN deposits_store :
                        Deposit_deserialize_error(deposits_store[j]) # "" => id <= j
                  /\ bot_pc' = Deposit_deserialize_error(deposits_store[id])
            /\ deposits' = EmptyDict
            /\ UNCHANGED start_timestamp_stored
       ELSE /\ bot_pc' = "idle"
            /\ deposits' = [id \in DOMAIN deposits_store |->
                               Deposit_deserialize(deposits_store[id])]
            /\ start_timestamp_stored' = TRUE
    /\ UNCHANGED <<deposits_store, exchange_deposits, deposit_at, placed_order,
                   withdrawal_requests>>
    /\ UNCHANGED notDepositVars

\* The process of the bot ends, wherever it is: what it held in memory is gone.
StopBot ==
    /\ bot_pc \in {"idle", "conversions", "polling", "withdrawals"}
    /\ bot_pc' = "down"
    /\ deposits' = EmptyDict
    /\ deposit_at' = 0
    /\ placed_order' = NoOrder
    /\ UNCHANGED <<config, deposits_store, start_timestamp_stored, exchange_deposits,
                   withdrawal_requests>>
    /\ UNCHANGED notDepositVars

\* A deposit arrives at the exchange, not yet confirmed.
ExchangeReceivesDeposit ==
    /\ \E id \in DepositIds, amount \in DepositAmounts, address \in Addresses :
          /\ id = Cardinality(DOMAIN exchange_deposits) + 1
          /\ exchange_deposits' =
               [i \in DOMAIN exchange_deposits \cup {id} |->
                   IF i = id
                   THEN [status |-> TxStatus("PENDING"), amount |-> amount,
                         address |-> address]
                   ELSE exchange_deposits[i]]
    /\ UNCHANGED <<bot_pc, config, deposits, deposits_store, start_timestamp_stored,
                   deposit_at, placed_order, withdrawal_requests>>
    /\ UNCHANGED notDepositVars

\* The exchange confirms a deposit.
ExchangeConfirmsDeposit ==
    /\ \E id \in DOMAIN exchange_deposits :
          /\ exchange_deposits[id].status = TxStatus("PENDING")
          /\ exchange_deposits' =
               [exchange_deposits EXCEPT ![id].status = TxStatus("OK")]
    /\ UNCHANGED <<bot_pc, config, deposits, deposits_store, start_timestamp_stored,
                   deposit_at, placed_order, withdrawal_requests>>
    /\ UNCHANGED notDepositVars

\* Mutant of UpdateDeposits: a tracked deposit the exchange lists is tracked
\* anew.
UpdateDeposits_tracks_anew ==
    /\ bot_pc = "idle"
    /\ LET buda_deposits ==
             {id \in DOMAIN exchange_deposits :
                 config.from_address # "Any"
                   => exchange_deposits[id].address = config.from_address}
           updated ==
             [id \in DOMAIN deposits \cup buda_deposits |->
                 IF id \in DOMAIN deposits /\ id \notin buda_deposits
                 THEN deposits[id]
                 ELSE Deposit(exchange_deposits[id].status,
                              Money(exchange_deposits[id].amount,
                                    from_currency_of(config.side)),
                              Money(0, from_currency_of(config.side)),
                              Money(0, to_currency_of(config.side)),
                              <<>>,
                              config.to_withdraw)]
       IN  /\ deposits' = updated
           /\ deposits_store' = serialized_deposits(updated)
           /\ deposit_at' = NextKey(updated, 0)
    /\ bot_pc' = "conversions"
    /\ UNCHANGED <<config, start_timestamp_stored, exchange_deposits, placed_order,
                   withdrawal_requests>>
    /\ UNCHANGED notDepositVars

\* _update_deposits (lines 82-104), the first step of _algorithm.
UpdateDeposits ==
    /\ bot_pc = "idle"
    /\ LET buda_deposits ==
             {id \in DOMAIN exchange_deposits :
                 config.from_address # "Any"
                   => exchange_deposits[id].address = config.from_address}
           updated ==
             [id \in DOMAIN deposits \cup buda_deposits |->
                 IF id \in DOMAIN deposits
                 THEN IF id \in buda_deposits
                           /\ exchange_deposits[id].status # deposits[id].status
                      THEN [deposits[id] EXCEPT !.status = exchange_deposits[id].status]
                      ELSE deposits[id]
                 ELSE Deposit(exchange_deposits[id].status,
                              Money(exchange_deposits[id].amount,
                                    from_currency_of(config.side)),
                              Money(0, from_currency_of(config.side)),
                              Money(0, to_currency_of(config.side)),
                              <<>>,
                              config.to_withdraw)]
       IN  /\ deposits' = updated
           /\ deposits_store' = serialized_deposits(updated)
           /\ deposit_at' = NextKey(updated, 0)
    /\ bot_pc' = "conversions"
    /\ UNCHANGED <<config, start_timestamp_stored, exchange_deposits, placed_order,
                   withdrawal_requests>>
    /\ UNCHANGED notDepositVars

\* The fees an order is charged, and the free balances of the wallet the
\* converted value is withdrawn from.
OrderFees == {0, 1}
FreeBalances == {0, 2}

\* A market order as the exchange reports it: the amount is filled at one
\* quote unit per base unit once the order is closed.
MarketOrder(id, status, amount, fee) ==
    [id |-> id, status |-> status, amount |-> amount,
     filled |-> IF status = "CLOSED" THEN amount ELSE 0,
     cost |-> IF status = "CLOSED" THEN amount ELSE 0,
     fee |-> IF status = "CLOSED" THEN fee ELSE 0]

\* The id the exchange gives to the next order made for a deposit.
OrderId(d) == Len(d.order_ids) + 1

\* The body of the loop of _process_conversions (lines 108-118) for one
\* deposit: nothing when the deposit is not to be converted or when
\* place_market_order gives no order.
ConvertDeposit ==
    /\ bot_pc = "conversions"
    /\ deposit_at # 0
    /\ LET deposit == deposits[deposit_at]
           remaining == remaining_of(deposit, config.side)
       IN  IF to_be_converted(deposit, config.side)
           THEN \/ /\ \E status \in {"PENDING", "CLOSED"}, fee \in OrderFees :
                         placed_order' = MarketOrder(OrderId(deposit), status,
                                                     truncate_money(remaining).amount, fee)
                   /\ bot_pc' = "polling"
                   /\ UNCHANGED deposit_at
                \/ /\ placed_order' = NoOrder
                   /\ deposit_at' = NextKey(deposits, deposit_at)
                   /\ UNCHANGED bot_pc
           ELSE /\ deposit_at' = NextKey(deposits, deposit_at)
                /\ UNCHANGED <<bot_pc, placed_order>>
    /\ UNCHANGED <<config, deposits, deposits_store, start_timestamp_stored,
                   exchange_deposits, withdrawal_requests>>
    /\ UNCHANGED notDepositVars

\* One turn of the loop of line 119: fetch_order and sleep while the order is
\* not CLOSED. A canceled order stays canceled.
PollOrder ==
    /\ bot_pc = "polling"
    /\ placed_order.status # "CLOSED"
    /\ \E status \in {"PENDING", "CLOSED", "CANCELED"}, fee \in OrderFees :
          /\ placed_order.status = "CANCELED" => status = "CANCELED"
          /\ placed_order' = MarketOrder(placed_order.id, status, placed_order.amount, fee)
    /\ UNCHANGED <<bot_pc, config, deposits, deposits_store, start_timestamp_stored,
                   exchange_deposits, deposit_at, withdrawal_requests>>
    /\ UNCHANGED notDepositVars

\* Lines 122-129, once the order is CLOSED: the deposit takes the order in.
OrderTraded ==
    /\ bot_pc = "polling"
    /\ placed_order.status = "CLOSED"
    /\ LET deposit == deposits[deposit_at]
           amount_added == IF config.side = "buy" THEN placed_order.cost
                           ELSE placed_order.filled
           value_added == IF config.side = "buy"
                          THEN placed_order.filled - placed_order.fee
                          ELSE placed_order.cost - placed_order.fee
       IN  deposits' =
             [deposits EXCEPT ![deposit_at] =
                 Deposit(deposit.status,
                         deposit.original_amount,
                         Money(deposit.converted_amount.amount + amount_added,
                               deposit.converted_amount.currency),
                         Money(deposit.converted_value.amount + value_added,
                               deposit.converted_value.currency),
                         Append(deposit.order_ids, placed_order.id),
                         deposit.withdrawal_pending)]
    /\ placed_order' = NoOrder
    /\ deposit_at' = NextKey(deposits, deposit_at)
    /\ bot_pc' = "conversions"
    /\ UNCHANGED <<config, deposits_store, start_timestamp_stored, exchange_deposits,
                   withdrawal_requests>>
    /\ UNCHANGED notDepositVars

\* The end of _process_conversions (line 131): all deposits are saved.
ConversionsSaved ==
    /\ bot_pc = "conversions"
    /\ deposit_at = 0
    /\ deposits_store' = serialized_deposits(deposits)
    /\ bot_pc' = "withdrawals"
    /\ deposit_at' = NextKey(deposits, 0)
    /\ UNCHANGED <<config, deposits, start_timestamp_stored, exchange_deposits,
                   placed_order, withdrawal_requests>>
    /\ UNCHANGED notDepositVars

\* A call of request_withdrawal (line 147) for the deposit the loop is at: the
\* amount asked for, the free balance line 145 had fetched, and the status of
\* the withdrawal the exchange answered with.
Withdrawal(id, amount, available, status) ==
    [id |-> id, amount |-> amount, available |-> available, status |-> status]

\* The body of the loop of _process_withdrawals (lines 137-155) for one
\* deposit. Line 151 sets the store to self.deposits itself.
WithdrawDeposit ==
    /\ bot_pc = "withdrawals"
    /\ deposit_at # 0
    /\ LET deposit == deposits[deposit_at]
           withdrawal_amount == truncate_money(deposit.converted_value)
       IN  IF /\ deposit.status = TxStatus("OK")
              /\ deposit.withdrawal_pending
              /\ original_amount_is_converted(deposit, config.side)
           THEN \E available \in FreeBalances :
                   IF withdrawal_amount.amount <= available
                   THEN \E w_status \in {"PENDING", "REJECTED"} :
                           /\ Len(withdrawal_requests) < MaxRequests
                           /\ withdrawal_requests' =
                                Append(withdrawal_requests,
                                       Withdrawal(deposit_at, withdrawal_amount,
                                                  available, w_status))
                           /\ IF w_status = "PENDING"
                              THEN /\ deposits' = [deposits EXCEPT
                                          ![deposit_at].withdrawal_pending = FALSE]
                                   /\ deposits_store' = deposits'
                              ELSE UNCHANGED <<deposits, deposits_store>>
                   ELSE UNCHANGED <<deposits, deposits_store, withdrawal_requests>>
           ELSE UNCHANGED <<deposits, deposits_store, withdrawal_requests>>
    /\ deposit_at' = NextKey(deposits, deposit_at)
    /\ UNCHANGED <<bot_pc, config, start_timestamp_stored, exchange_deposits, placed_order>>
    /\ UNCHANGED notDepositVars

\* The end of _process_withdrawals and of _algorithm.
AlgorithmDone ==
    /\ bot_pc = "withdrawals"
    /\ deposit_at = 0
    /\ bot_pc' = "idle"
    /\ UNCHANGED <<config, deposits, deposits_store, start_timestamp_stored,
                   exchange_deposits, deposit_at, placed_order, withdrawal_requests>>
    /\ UNCHANGED notDepositVars

NextDeposits ==
    \/ StartBot
    \/ StopBot
    \/ ExchangeReceivesDeposit
    \/ ExchangeConfirmsDeposit
    \/ UpdateDeposits
    \/ ConvertDeposit
    \/ PollOrder
    \/ OrderTraded
    \/ ConversionsSaved
    \/ WithdrawDeposit
    \/ AlgorithmDone

\* ------------------------------------------- TechnicalAnalysis: the position
\* self.position and the 'position' value of the store.
ClosedPosition == [status |-> "closed"]
OpenPosition(side_, amount) == [status |-> "open", side |-> side_, amount |-> amount]

\* Money.loads(string): the Money of a string repr gave; what is no such
\* string makes it raise.
Money_loads(x) ==
    IF "repr" \in DOMAIN x
    THEN [error |-> "", value |-> Money(x.repr[1], x.repr[2])]
    ELSE [error |-> "TypeError", value |-> None]

\* config['talib']['rsi']['oversold'] and ['overbought']
rsi_oversold == 30
rsi_overbought == 70

\* The last close against the Bollinger bands, and the RSI, as lines 43-54
\* compute them from the trades get_trades returned.
Bands == {"below", "inside", "above"}
RsiValues == {20, 50, 80}

\* What get_amount gives (truncated), and what the exchange takes of an order,
\* in halves of the smallest unit of the base currency.
PositionAmounts == {0, 2, 4, 6}
TakenAmounts == 0 .. 6

\* The outcome of one run of _algorithm: the order it placed and the error it
\* raised, if any.
Run(order_side, order_amount, tx_amount, error) ==
    [order_side |-> order_side, order_amount |-> order_amount,
     tx_amount |-> tx_amount, error |-> error]

NoRun == Run("none", 0, 0, "")

InitPosition ==
    /\ ta_pc = "down"
    /\ position = None
    /\ position_store = None
    /\ last_run = NoRun

\* _setup, line 30: self.position is the stored position, or closed.
StartAnalysis ==
    /\ ta_pc = "down"
    /\ ta_pc' = "up"
    /\ position' = IF position_store = None THEN ClosedPosition ELSE position_store
    /\ last_run' = NoRun
    /\ UNCHANGED position_store
    /\ UNCHANGED notPositionVars

\* The process of the bot ends: self.position is gone.
StopAnalysis ==
    /\ ta_pc = "up"
    /\ ta_pc' = "down"
    /\ position' = None
    /\ last_run' = NoRun
    /\ UNCHANGED position_store
    /\ UNCHANGED notPositionVars

\* self.buda.market
analysis_market == Market("BTC", "CLP")

\* tx.amount of an order placed for `amount`, when the exchange takes at most
\* `taken` of it.
tx_amount_of(amount, taken) == IF taken < amount THEN taken ELSE amount

\* The position after an order that opens one (lines 63-69, 76-82): amount is
\* what get_amount gave.
OpenedBy(side_, amount, taken) ==
    IF amount >= MinOrderAmount
    THEN [position |->
            OpenPosition(side_, MoneyRepr(Money(tx_amount_of(amount, taken),
                                                analysis_market.base))),
          run |-> Run(side_, amount, tx_amount_of(amount, taken), "")]
    ELSE [position |-> position, run |-> NoRun]

\* Mutant of ClosedBy: the position is closed whatever the order left.
ClosedBy_whatever_is_left(order_side, taken, as_string) ==
    LET parsed_amount == Money_loads(position.amount)
        amount == parsed_amount.value.amount
    IN  IF parsed_amount.error # ""
        THEN [position |-> position, run |-> Run("none", 0, 0, parsed_amount.error)]
        ELSE IF amount >= MinOrderAmount
             THEN [position |-> ClosedPosition,
                   run |-> Run(order_side, amount, tx_amount_of(amount, taken), "")]
             ELSE [position |-> position, run |-> NoRun]

\* The position after an order that closes one (lines 92-101, 105-114): the
\* recorded amount is loaded, an order of it is placed on the other side, and
\* the remainder is kept when it is not below the minimum: as it is on line
\* 99 (BUY positions), as its string on line 112 (SELL positions).
ClosedBy(order_side, taken, as_string) ==
    LET parsed_amount == Money_loads(position.amount)
        amount == parsed_amount.value.amount
        remaining == Money(amount - tx_amount_of(amount, taken), analysis_market.base)
    IN  IF parsed_amount.error # ""
        THEN [position |-> position, run |-> Run("none", 0, 0, parsed_amount.error)]
        ELSE IF amount >= MinOrderAmount
             THEN [position |->
                     IF remaining.amount < MinOrderAmount THEN ClosedPosition
                     ELSE [position EXCEPT !.amount =
                              IF as_string THEN MoneyRepr(remaining) ELSE remaining],
                   run |-> Run(order_side, amount, tx_amount_of(amount, taken), "")]
             ELSE [position |-> position, run |-> NoRun]

\* _algorithm from line 56 on (the candles and indicators of lines 40-54 are
\* drawn): the position is opened, closed or left, and stored (line 117)
\* unless the run raised.
RunAlgorithm ==
    /\ ta_pc = "up"
    /\ \E band \in Bands, rsi \in RsiValues, amount \in PositionAmounts,
          taken \in TakenAmounts :
          \E after \in
             {IF position.status = "closed"
              THEN IF band = "below" /\ rsi < rsi_oversold
                   THEN OpenedBy("buy", amount, taken)
                   ELSE IF band = "above" /\ rsi > rsi_overbought
                        THEN OpenedBy("sell", amount, taken)
                        ELSE [position |-> position, run |-> NoRun]
              ELSE IF position.side = "buy" /\ rsi >= 30
                   THEN ClosedBy("sell", taken, FALSE)
                   ELSE IF position.side = "sell" /\ rsi <= 70
                        THEN ClosedBy("buy", taken, TRUE)
                        ELSE [position |-> position, run |-> NoRun]} :
             /\ position' = after.position
             /\ last_run' = after.run
             /\ position_store' = IF after.run.error # "" THEN position_store
                                  ELSE after.position
    /\ UNCHANGED ta_pc
    /\ UNCHANGED notPositionVars

NextPosition ==
    \/ StartAnalysis
    \/ StopAnalysis
    \/ RunAlgorithm

\* ------------------------------- RelativeOrders and SimpleLimit: _algorithm
\* The two bots that keep one BUY and one SELL limit order on the market.
LimitBots == {"RelativeOrders", "SimpleLimit"}

\* The market of self.buda.
limit_market == Market("BTC", "CLP")

\* buy_multiplier and sell_multiplier of the configuration, in halves; the
\* prices of the ticker, the rate of the converter and the free balances, in
\* halves of the smallest unit of their currency.
Multipliers == {1, 2, 3}
ReferencePrices == {1, 4}
Rates == {1, 2}
Available == {0, 3, 8}

\* truncate_money(price * multiplier), lines 32-33 of RelativeOrders and 53-54
\* of SimpleLimit.
limit_price(reference, multiplier) ==
    truncate_money(Money((reference.amount * multiplier) \div 2, reference.currency))

\* min(self.max_base, available_base), lines 43-44 and 67-68.
min_money(a, b) == IF a.amount <= b.amount THEN a ELSE b

\* amount_buy of lines 47-49 and 72-74: the quote amount in base currency at
\* the buy price, which must not be zero.
amount_buy_of(amount_quote, price_buy) ==
    truncate_money(Money((2 * amount_quote.amount) \div price_buy.amount,
                         limit_market.base))

\* A call the bot made to the exchange in the running iteration, with the
\* order it asked for and whether it returned.
ExchangeCall(op, c_side, amount, returned) ==
    [op |-> op, side |-> c_side, amount |-> amount, returned |-> returned]

\* The configuration and the locals of _algorithm, before _setup.
NoLimitBot ==
    [bot |-> "none", buy_multiplier |-> 0, sell_multiplier |-> 0,
     max_base |-> None, max_quote |-> None, converts |-> FALSE,
     price_buy |-> None, price_sell |-> None,
     amount_buy |-> None, amount_sell |-> None]

InitLimit ==
    /\ limit_pc = "down"
    /\ limit_bot = NoLimitBot
    /\ limit_calls = <<>>

\* _setup of either bot: the multipliers and the largest amounts are read
\* from the configuration; SimpleLimit's reference market is the market of
\* self.buda or another one.
SetupLimit ==
    /\ limit_pc = "down"
    /\ \E bot \in LimitBots, buy_multiplier \in Multipliers, max_base \in {2, 5},
          converts \in BOOLEAN :
          /\ bot = "RelativeOrders" => ~converts
          /\ limit_bot' = [NoLimitBot EXCEPT
                              !.bot = bot,
                              !.buy_multiplier = buy_multiplier,
                              !.sell_multiplier = 3,
                              !.max_base = Money(max_base, limit_market.base),
                              !.max_quote = Money(8, limit_market.quote),
                              !.converts = converts]
    /\ limit_pc' = "idle"
    /\ limit_calls' = <<>>
    /\ UNCHANGED notLimitVars

\* The prices of an iteration. RelativeOrders (lines 27-33) takes both from
\* the middle price of its own ticker, drawn as bid = ask; SimpleLimit (lines
\* 48-54, 98-114) takes them from the bid and ask of the reference ticker,
\* converted when the reference market is another one. fetch_ticker may
\* raise.
PreparePrices ==
    /\ limit_pc \in {"idle", "done", "raised"}
    /\ \/ \E bid \in ReferencePrices, ask \in ReferencePrices, rate \in Rates :
             /\ bid <= ask
             /\ limit_bot.bot = "RelativeOrders" => bid = ask
             /\ ~limit_bot.converts => rate = 1
             /\ limit_bot' =
                  [limit_bot EXCEPT
                      !.price_buy = limit_price(Money(bid * rate, limit_market.quote),
                                                limit_bot.buy_multiplier),
                      !.price_sell = limit_price(Money(ask * rate, limit_market.quote),
                                                 limit_bot.sell_multiplier),
                      !.amount_buy = None,
                      !.amount_sell = None]
             /\ limit_calls' = <<ExchangeCall("fetch_ticker", "none", None, TRUE)>>
             /\ limit_pc' = "priced"
       \/ /\ limit_calls' = <<ExchangeCall("fetch_ticker", "none", None, FALSE)>>
          /\ limit_pc' = "raised"
          /\ UNCHANGED limit_bot
    /\ UNCHANGED notLimitVars

\* Mutant of CancelAllOrders: the iteration goes on when the call raised.
CancelAllOrders_goes_on ==
    /\ limit_pc = "priced"
    /\ \E returned \in BOOLEAN :
          limit_calls' = Append(limit_calls,
                                ExchangeCall("cancel_all_orders", "none", None, returned))
    /\ limit_pc' = "cancelled"
    /\ UNCHANGED limit_bot
    /\ UNCHANGED notLimitVars

\* self.buda.cancel_all_orders() (line 38, line 60): when it raises, the
\* iteration ends there.
CancelAllOrders ==
    /\ limit_pc = "priced"
    /\ \E returned \in BOOLEAN :
          /\ limit_calls' = Append(limit_calls,
                                   ExchangeCall("cancel_all_orders", "none", None, returned))
          /\ limit_pc' = IF returned THEN "cancelled" ELSE "raised"
    /\ UNCHANGED limit_bot
    /\ UNCHANGED notLimitVars

\* Lines 40-50 (64-75): the free balances are fetched and the amounts of the
\* two orders computed; fetch_balance may raise, and a buy price of zero makes
\* the division raise.
PrepareAmounts ==
    /\ limit_pc = "cancelled"
    /\ \/ /\ limit_calls' = Append(limit_calls,
                                   ExchangeCall("fetch_balance", "base", None, FALSE))
          /\ limit_pc' = "raised"
          /\ UNCHANGED limit_bot
       \/ \E available_base \in Available, available_quote \in Available :
          LET amount_base == min_money(limit_bot.max_base,
                                       Money(available_base, limit_market.base))
              amount_quote == min_money(limit_bot.max_quote,
                                        Money(available_quote, limit_market.quote))
              fetched == limit_calls \o
                           <<ExchangeCall("fetch_balance", "base", None, TRUE),
                             ExchangeCall("fetch_balance", "quote", None, TRUE)>>
          IN  /\ limit_calls' = fetched
              /\ IF limit_bot.price_buy.amount = 0
                 THEN /\ limit_pc' = "raised"
                      /\ UNCHANGED limit_bot
                 ELSE /\ limit_pc' = "funded"
                      /\ limit_bot' =
                           [limit_bot EXCEPT
                               !.amount_buy = amount_buy_of(amount_quote, limit_bot.price_buy),
                               !.amount_sell = truncate_money(amount_base)]
    /\ UNCHANGED notLimitVars

\* Lines 54-57 (79-82): the BUY order, when its amount is not below the
\* minimum; place_limit_order may raise.
PlaceBuy ==
    /\ limit_pc = "funded"
    /\ IF limit_bot.amount_buy.amount >= MinOrderAmount
       THEN \E returned \in BOOLEAN :
               /\ limit_calls' = Append(limit_calls,
                                        ExchangeCall("place_limit_order", "buy",
                                                     limit_bot.amount_buy, returned))
               /\ limit_pc' = IF returned THEN "bought" ELSE "raised"
       ELSE /\ limit_pc' = "bought"
            /\ UNCHANGED limit_calls
    /\ UNCHANGED limit_bot
    /\ UNCHANGED notLimitVars

\* Lines 58-61 (83-86): the SELL order, and the end of the iteration.
PlaceSell ==
    /\ limit_pc = "bought"
    /\ IF limit_bot.amount_sell.amount >= MinOrderAmount
       THEN \E returned \in BOOLEAN :
               /\ limit_calls' = Append(limit_calls,
                                        ExchangeCall("place_limit_order", "sell",
                                                     limit_bot.amount_sell, returned))
               /\ limit_pc' = IF returned THEN "done" ELSE "raised"
       ELSE /\ limit_pc' = "done"
            /\ UNCHANGED limit_calls
    /\ UNCHANGED limit_bot
    /\ UNCHANGED notLimitVars

NextLimit ==
    \/ SetupLimit
    \/ PreparePrices
    \/ CancelAllOrders
    \/ PrepareAmounts
    \/ PlaceBuy
    \/ PlaceSell

\* ------------------------------------------------------- specifications
Init == InitTrades /\ InitMarket /\ InitBalance /\ InitKraken /\ InitDeposits /\ InitPosition /\ InitLimit

Next == NextTrades \/ NextMarket \/ NextBalance \/ NextKraken \/ NextDeposits \/ NextPosition \/ NextLimit

Spec == Init /\ [][Next]_vars

SpecTrades == Init /\ [][NextTrades]_vars

SpecMarket == Init /\ [][NextMarket]_vars

SpecBalance == Init /\ [][NextBalance]_vars

SpecKraken == Init /\ [][NextKraken]_vars

SpecDeposits == Init /\ [][NextDeposits]_vars

SpecPosition == Init /\ [][NextPosition]_vars

SpecLimit == Init /\ [][NextLimit]_vars

FairSpecTrades == SpecTrades /\ WF_vars(FetchRaises \/ FetchPage)

\* ------------------------------------------- TechnicalAnalysis: the claims
\* The steps of get_trades, as seen from outside.
BeginAccepted == pc = "idle" /\ pc' = "fetch"
BeginRejected == pc = "idle" /\ pc' = "idle" /\ outcome'.kind = "AssertionError"
ReturnStep == pc = "fetch" /\ pc' = "idle" /\ outcome'.kind = "returned"
RaiseStep == pc = "fetch" /\ pc' = "idle" /\ outcome'.kind = "raised"
NextPageStep == pc = "fetch" /\ pc' = "fetch"

IsSortedAsc(s) == \A i \in 1..(Len(s) - 1) : s[i].timestamp <= s[i + 1].timestamp

Count(s, x) == Cardinality({i \in 1..Len(s) : s[i] = x})

Elems(s) == {s[i] : i \in 1..Len(s)}

\* The exchange's records newer than `since`, as get_trades reports a record.
NewerTrades(since) ==
    LET newer == SelectSeq(history, LAMBDA t : t.date > since)
    IN  [i \in 1..Len(newer) |->
            [timestamp |-> newer[i].date, rate |-> newer[i].price,
             amount |-> IF newer[i].type = "0" THEN newer[i].amount
                        ELSE 0 - newer[i].amount]]

\* No record of the exchange newer than `since` is missing from s.
NothingLost(s, since) ==
    \A x \in Elems(NewerTrades(since)) : Count(s, x) >= Count(NewerTrades(since), x)

\* s holds no record more often than the exchange does, and the null entry
\* of `since` at most once.
NothingDuplicated(s, since) ==
    \A x \in Elems(s) :
        IF x = [timestamp |-> since, rate |-> 0, amount |-> 0]
        THEN Count(s, x) <= 1
        ELSE Count(s, x) <= Count(NewerTrades(0 - 1), x)

\* C1: starting from an empty store, get_trades(since) returns every exchange
\* record newer than `since`, in ascending timestamp order, each exactly once:
\* no record is lost at a page boundary.
C1_FetchComplete ==
    [][(ReturnStep /\ loaded = <<>>)
         => outcome'.value = NewerTrades(from_timestamp)]_vars

\* C2: get_trades(since) called twice in a row with no new exchange data
\* succeeds both times, returns the same records both times, and neither the
\* returned nor the persisted list holds a duplicated record.
C2_Idempotent ==
    [][/\ (BeginRejected /\ outcome.kind = "returned")
            => outcome'.since # outcome.since
       /\ (ReturnStep /\ outcome.kind = "returned" /\ outcome.since = from_timestamp)
            => /\ outcome'.value = outcome.value
               /\ NothingDuplicated(outcome'.value, from_timestamp)
               /\ NothingDuplicated(store', from_timestamp)]_vars

\* C3: what get_trades(since) returns is the accumulated list without the null
\* entry of `since`: every returned record is a real exchange record at or
\* after `since`, and no real record is removed in the null entry's place.
C3_OnlyRealRecords ==
    [][ReturnStep
         => /\ outcome'.value =
                 SelectSeq(store', LAMBDA r :
                     r # [timestamp |-> from_timestamp, rate |-> 0, amount |-> 0])
            /\ \A r \in Elems(outcome'.value) :
                 r.rate # 0 /\ r.timestamp >= from_timestamp]_vars

\* C4: when the exchange call raises on page k the exception reaches the
\* caller and the store holds what was persisted after page k-1 (what it held
\* before the call when k = 1); get_trades run again with the same `since`
\* does not fail and neither loses nor duplicates a record.
C4_RetryAfterFailure ==
    [][/\ RaiseStep
            => store' = store /\ store = (IF n_calls = 0 THEN loaded ELSE trades)
       /\ (BeginRejected /\ outcome.kind = "raised")
            => outcome'.since # outcome.since
       /\ (ReturnStep /\ outcome.kind = "raised" /\ outcome.since = from_timestamp)
            => /\ NothingLost(outcome'.value, from_timestamp)
               /\ NothingDuplicated(outcome'.value, from_timestamp)]_vars

\* C5: at the first exchange query of get_trades(since), if `since` lies
\* strictly between the first and the last stored timestamp the cursor is the
\* last stored timestamp and the stored records at or after `since` are kept;
\* otherwise the cursor is `since` and no stored record is kept.
C5_StartPoint ==
    (pc = "fetch" /\ n_calls = 0)
      => IF /\ loaded # <<>>
            /\ loaded[1].timestamp < from_timestamp
            /\ from_timestamp < loaded[Len(loaded)].timestamp
         THEN /\ query_timestamp = loaded[Len(loaded)].timestamp
              /\ trades = SelectSeq(loaded, LAMBDA r : r.timestamp >= from_timestamp)
                            \o <<[timestamp |-> from_timestamp, rate |-> 0, amount |-> 0]>>
         ELSE /\ query_timestamp = from_timestamp
              /\ trades = <<[timestamp |-> from_timestamp, rate |-> 0, amount |-> 0]>>

\* C5 witness: a first query that resumes from the stored records.
C5_Witness ==
    /\ pc = "fetch" /\ n_calls = 0
    /\ Len(trades) >= 2
    /\ query_timestamp > from_timestamp

\* C6: a get_trades that returns has made at least one exchange call; after a
\* page the loop goes on if and only if the page held exactly the page size
\* of records, and a shorter page, an empty one included, ends the fetch with
\* a return; the loop terminates.
C6_LoopUntilShortPage ==
    /\ [][/\ NextPageStep => Len(store') - Len(trades) = PageLimit
          /\ ReturnStep => /\ Len(store') - Len(trades) < PageLimit
                           /\ outcome'.calls >= 1]_vars
    /\ (pc = "fetch") ~> (pc = "idle")

\* C6 witness: a fetch that ended on an empty page, after a full one.
C6_Witness ==
    /\ outcome.kind = "returned"
    /\ outcome.calls = 2
    /\ Len(outcome.value) = PageLimit

\* C7: get_trades fails on load, before any exchange call or store write,
\* exactly when the stored records are not sorted ascending by timestamp.
C7_LoadCheck ==
    [][/\ BeginAccepted => IsSortedAsc(store)
       /\ BeginRejected => (~IsSortedAsc(store) /\ store' = store)]_vars

\* ------------------------------------------------- AnyToAny: the claims
\* C8: the market _get_market returns for the pair (from, to) is one of the
\* published markets: Market(from, to) when that is published, Market(to, from)
\* when only that one is.
C8_MarketResolved ==
    setup = "done"
      => /\ market \in buda_markets
         /\ Market(from_currency, to_currency) \in buda_markets
              => market = Market(from_currency, to_currency)
         /\ (/\ Market(to_currency, from_currency) \in buda_markets
             /\ Market(from_currency, to_currency) \notin buda_markets)
              => market = Market(to_currency, from_currency)

\* C9: when neither (from, to) nor (to, from) is a published market,
\* _get_market raises, no market is set and no trading client is created.
C9_IncompatibleMarket ==
    (/\ setup # "none"
     /\ Market(from_currency, to_currency) \notin buda_markets
     /\ Market(to_currency, from_currency) \notin buda_markets)
      => /\ setup = "NotImplementedError"
         /\ market = NoMarket
         /\ buda = {}

\* ------------------------------------------- KrakenWallet: the claims
\* C10: every Balance that _balance returns has total = free + used, the
\* Balance of an asset absent from the exchange's response included.
C10_BalanceInvariant ==
    balance.kind = "Balance" => balance.total = balance.free + balance.used

\* C10 witness: a Balance with an amount committed to every open order.
C10_Witness ==
    /\ balance.kind = "Balance"
    /\ Len(open_orders) = MaxOrders
    /\ balance.used > Len(open_orders)
    /\ balance.free < balance.total

\* What one open order commits of the wallet's currency: the amount of a SELL
\* on a market whose base is the currency, amount x price of a BUY on a market
\* whose quote is the currency, nothing otherwise.
Committed(order, wallet) ==
    LET o_markets == get_market_from_pair(order.pair)
    IN  IF order.type = "sell" /\ \E m \in o_markets : m.base = wallet
        THEN order.vol
        ELSE IF order.type = "buy" /\ \E m \in o_markets : m.quote = wallet
             THEN order.vol * order.price
             ELSE 0

RECURSIVE SumCommitted(_, _, _)
SumCommitted(orders, n, wallet) ==
    IF n = 0 THEN 0
    ELSE SumCommitted(orders, n - 1, wallet) + Committed(orders[n], wallet)

\* C11: the used amount of a Balance derived from the open orders is the sum
\* over all open orders of what each commits of the wallet's currency (amount
\* of a SELL on the currency's base market, amount x price of a BUY on the
\* currency's quote market, zero otherwise), total is the exchange's total and
\* free is total - used.
C11_UsedIsSumOfCommitted ==
    (balance.kind = "Balance" /\ balance.info = "")
      => /\ balance.used = SumCommitted(open_orders, Len(open_orders), currency)
         /\ balance.total = balance_result[parse_common_currency(currency, TRUE)]
         /\ balance.free = balance.total - balance.used

\* C11 witness: a BTC wallet with a SELL on BTC/USD and an order that commits
\* no BTC: used is the SELL's amount alone.
C11_Witness ==
    /\ balance.kind = "Balance" /\ balance.info = ""
    /\ currency = "BTC"
    /\ Len(open_orders) = 2
    /\ open_orders[1].type = "sell" /\ open_orders[1].pair = "XXBTZUSD"
    /\ open_orders[2].type = "buy" /\ open_orders[2].pair = "XXBTZUSD"
    /\ balance.used = open_orders[1].vol
    /\ balance.free = balance.total - open_orders[1].vol

\* ------------------------------------------- KrakenTrading: the claims
\* C12: every operation Kraken does not support (trading_fees, trades_since,
\* deposits_since, withdrawals_since, cancel_orders) fails with NotSupported:
\* no other kind of error, no value returned.
C12_UnsupportedRaiseNotSupported ==
    last_call.op \in UnsupportedOps
      => last_call.error = "NotSupported" /\ last_call.value = None

\* The tokens that are numbers.
NumericTokens == {"1", "3"}

\* The token grammar of a placed order's description: token 0 buy or sell,
\* token 1 the amount, token 4 the order type, token 5 the price.
MatchesGrammar(description) ==
    /\ Len(description) >= 6
    /\ description[1] \in {"buy", "sell"}
    /\ description[2] \in NumericTokens
    /\ description[6] \in NumericTokens

\* C13: _parse_placed_order takes side, amount and price from tokens 0, 1 and
\* 5 of a description that matches the grammar; for a description that does
\* not match (unknown side, too few tokens, an amount or a price that is not
\* a number) it fails with a parsing error and returns no Order.
C13_PlacedOrderGrammar ==
    (last_call.op = "place_order" /\ last_call.error # "CredentialsMissing")
      => IF MatchesGrammar(last_call.arg)
         THEN /\ last_call.error = ""
              /\ last_call.value.side = last_call.arg[1]
              /\ last_call.value.amount
                   = Money(Decimal(last_call.arg[2]), kraken_market.base)
              /\ last_call.value.price
                   = Money(Decimal(last_call.arg[6]), kraken_market.quote)
         ELSE /\ last_call.error = "ParseError"
              /\ last_call.value = None

\* C14: the Order that _parse_order returns for a payload holding both vol
\* and vol_exec has amount = vol, filled = vol_exec and remaining = amount -
\* filled, all three in the base currency of the order's market.
C14_RemainingIsAmountMinusFilled ==
    (/\ last_call.op = "order" /\ last_call.error = ""
     /\ {"vol", "vol_exec"} \subseteq DOMAIN last_call.arg)
      => LET base == last_call.value.market.base
         IN  /\ last_call.value.amount = Money(last_call.arg["vol"], base)
             /\ last_call.value.filled = Money(last_call.arg["vol_exec"], base)
             /\ last_call.value.remaining =
                  Money(last_call.arg["vol"] - last_call.arg["vol_exec"], base)

\* C14 witness: a partly filled order, with less remaining than its amount.
C14_Witness ==
    /\ last_call.op = "order" /\ last_call.error = ""
    /\ last_call.arg["vol_exec"] = 1
    /\ last_call.value.remaining.amount = last_call.value.amount.amount - 1
    /\ last_call.value.remaining.amount > 0

\* The Ticker field filled from each optional key of the ticker.
TickerFieldOf(key) ==
    CASE key = "o" -> "open"
      [] key = "h" -> "high"
      [] key = "l" -> "low"
      [] key = "p" -> "vwap"

\* C15: _parse_ticker returns a Ticker whatever optional fields the ticker
\* lacks; open, high, low and vwap are None when their key is absent, and
\* change, percentage and average are None.
C15_AbsentFieldsUnknown ==
    (last_call.op = "ticker" /\ last_call.error # "CredentialsMissing")
      => /\ last_call.error = ""
         /\ \A key \in {"o", "h", "l", "p"} :
               key \notin DOMAIN last_call.arg
                 => last_call.value[TickerFieldOf(key)] = None
         /\ last_call.value.change = None
         /\ last_call.value.percentage = None
         /\ last_call.value.average = None

\* C16: the Ticker that _parse_ticker returns has mid = (bid + ask) / 2, with
\* bid, ask, mid, last and close in the market's quote currency, bid and ask
\* those of the ticker, and close = last.
C16_MidIsMean ==
    (last_call.op = "ticker" /\ last_call.error = "")
      => /\ last_call.value.bid = Money(last_call.arg["b"][1], kraken_market.quote)
         /\ last_call.value.ask = Money(last_call.arg["a"][1], kraken_market.quote)
         /\ 2 * last_call.value.mid.amount
              = last_call.arg["b"][1] + last_call.arg["a"][1]
         /\ last_call.value.mid.currency = kraken_market.quote
         /\ last_call.value.last.currency = kraken_market.quote
         /\ last_call.value.close = last_call.value.last

\* C16 witness: bid 100 and ask 102 give mid 101.
C16_Witness ==
    /\ last_call.op = "ticker" /\ last_call.error = ""
    /\ last_call.value.bid.amount = 100
    /\ last_call.value.ask.amount = 102
    /\ last_call.value.mid.amount = 101

\* C17: no two exchange codes of the translation table have the same common
\* code; translating a common code of the table to the exchange's code and
\* back gives the code, and so does translating an exchange code of the table
\* to the common code and back; _get_market_from_pair finds a market exactly
\* for the pairs that are the exchange's base code followed by the exchange's
\* quote code of one of self.markets, and that is the market it finds.
C17_TranslationInvolutive ==
    /\ last_call.op = "parse_common_currency"
         => /\ \A k1, k2 \in ExchangeCodes :
                  common_currencies[k1] = common_currencies[k2] => k1 = k2
            /\ (last_call.arg.reverse /\ last_call.arg.code \in CommonCodes)
                  => last_call.value.back = last_call.arg.code
            /\ (~last_call.arg.reverse /\ last_call.arg.code \in ExchangeCodes)
                  => last_call.value.back = last_call.arg.code
    /\ last_call.op = "get_market_from_pair"
         => /\ last_call.error = ""
                 <=> \E m \in KrakenMarkets :
                        last_call.arg = parse_common_currency(m.base, TRUE)
                                          \o parse_common_currency(m.quote, TRUE)
            /\ last_call.error = ""
                 => /\ last_call.value \in KrakenMarkets
                    /\ last_call.arg =
                         parse_common_currency(last_call.value.base, TRUE)
                           \o parse_common_currency(last_call.value.quote, TRUE)

\* C17 witness: BTC goes to XXBT and comes back.
C17_Witness ==
    /\ last_call.op = "parse_common_currency"
    /\ last_call.arg.code = "BTC" /\ last_call.arg.reverse
    /\ last_call.value.there = "XXBT"
    /\ last_call.value.back = "BTC"

\* The operations that read self.client.
AuthenticatedOps == {"ticker", "order", "open_orders", "closed_orders",
                     "closed_orders_since", "place_order", "cancel_order"}

\* C18: the credentials are checked before the client is constructed; with an
\* absent secret an authenticated operation fails with the credentials error
\* and no client is constructed or cached; a client once constructed is the
\* client of every later operation: it is constructed at most once and the
\* credentials are not read again.
C18_ClientConstructedOnce ==
    [][/\ (client = NoClient /\ client' # NoClient)
            => /\ last_call'.op \in AuthenticatedOps
               /\ last_call'.checked
               /\ secret # ""
               /\ client' = KrakenAuthClient(secret)
               /\ n_built' = 1
       /\ (client = NoClient /\ secret = "" /\ last_call'.op \in AuthenticatedOps)
            => /\ last_call'.error = "CredentialsMissing"
               /\ client' = NoClient
               /\ n_built' = 0
       /\ client # NoClient
            => /\ client' = client
               /\ n_built' = n_built
               /\ ~last_call'.checked
               /\ last_call'.error # "CredentialsMissing"]_vars

\* C18 witness: the credentials were replaced after the client was
\* constructed, and an operation went through with the client of the old ones.
C18_Witness ==
    /\ client # NoClient
    /\ secret # client.credentials
    /\ last_call.op = "order" /\ last_call.error = ""
    /\ ~last_call.checked
    /\ n_built = 1

\* ------------------------------------------- AnyToAny deposits: the claims
\* The serialized form of a Money: the string repr gives.
IsSerializedMoney(x) == DOMAIN x = {"repr"}

\* The serialized form of a Deposit: the mapping Deposit.serialize gives, of
\* the status name, the strings of the amounts, the order ids and the flag.
IsSerializedDeposit(v) ==
    /\ DOMAIN v = {"status", "original_amount", "converted_amount", "converted_value",
                   "orders", "withdrawal_pending"}
    /\ v["status"] \in {"PENDING", "OK"}
    /\ IsSerializedMoney(v["original_amount"])
    /\ IsSerializedMoney(v["converted_amount"])
    /\ IsSerializedMoney(v["converted_value"])
    /\ v["withdrawal_pending"] \in BOOLEAN

\* C19: whatever _update_deposits, _process_conversions and
\* _process_withdrawals have run, the value of the store's deposits key is a
\* mapping of serialized deposits, never Deposit objects.
C19_StoreHoldsSerialized ==
    \A id \in DOMAIN deposits_store : IsSerializedDeposit(deposits_store[id])

\* ------------------------------------- TechnicalAnalysis position: the claims
\* C20: the 'position' value written to the store is {status: closed} or an
\* open position whose side is a value of Side and whose amount is the string
\* of a Money, whichever way the position was opened, partly closed or closed.
C20_PositionStoredSerialized ==
    position_store # None
      => \/ position_store = ClosedPosition
         \/ /\ DOMAIN position_store = {"status", "side", "amount"}
            /\ position_store.status = "open"
            /\ position_store.side \in Sides
            /\ IsSerializedMoney(position_store.amount)

\* C21: the deposits _save_deposits_to_store saved are what the next _setup
\* loads: Deposit.deserialize gives back the Deposit that Deposit.serialize
\* was given, with its status, amounts, order ids and flag.
C21_DepositRoundTrip ==
    [][(/\ StartBot
        /\ deposits_store # EmptyDict
        /\ \A id \in DOMAIN deposits_store : IsSerializedDeposit(deposits_store[id]))
          => /\ bot_pc' = "idle"
             /\ DOMAIN deposits' = DOMAIN deposits_store
             /\ \A id \in DOMAIN deposits_store :
                   Deposit_serialize(deposits'[id]) = deposits_store[id]]_vars

\* C22: the fee of the Order _parse_order returns for a payload with a fee
\* is in the quote currency of the market when the flags hold fciq, else in
\* the base currency when they hold fcib; with neither flag, or with no fee in
\* the payload, the fee is None.
C22_FeeCurrency ==
    (last_call.op = "order" /\ last_call.error = "")
      => LET order == last_call.arg
             parsed == last_call.value
         IN  IF "fee" \notin DOMAIN order THEN parsed.fee = None
             ELSE IF "fciq" \in order["oflags"]
                  THEN parsed.fee = Money(order["fee"], parsed.market.quote)
             ELSE IF "fcib" \in order["oflags"]
                  THEN parsed.fee = Money(order["fee"], parsed.market.base)
             ELSE parsed.fee = None

\* C22 witness: a payload with a fee and both flags, the fee in the quote
\* currency.
C22_Witness ==
    /\ last_call.op = "order" /\ last_call.error = ""
    /\ "fee" \in DOMAIN last_call.arg
    /\ last_call.arg["oflags"] = {"fciq", "fcib"}
    /\ last_call.value.fee # None
    /\ last_call.value.fee.currency = last_call.value.market.quote

\* The fields of a deposit that a traded order changes.
ConvertedFields(d) == <<d.converted_amount, d.converted_value, d.order_ids>>

\* C23, first part: the converted amount, the converted value and the order
\* ids of a deposit change only in the step that follows an order observed
\* CLOSED.
C23_UpdatedOnlyOnceClosed ==
    [][\A id \in DOMAIN deposits \cap DOMAIN deposits' :
          ConvertedFields(deposits'[id]) # ConvertedFields(deposits[id])
            => /\ bot_pc = "polling"
               /\ id = deposit_at
               /\ placed_order.status = "CLOSED"]_vars

\* C23: the polling loop of _process_conversions ends once the order it waits
\* for has reached a terminal status, CLOSED or CANCELED: with such an order
\* the step that leaves the loop can be taken.
C23_PollingEnds ==
    (bot_pc = "polling" /\ placed_order.status \in {"CLOSED", "CANCELED"})
      => ENABLED OrderTraded

\* What is left to convert of a deposit, in base currency units.
Unconverted(d) == d.original_amount.amount - d.converted_amount.amount

\* C24: in _process_conversions a market order is placed for a deposit only
\* when its status is OK and what is left to convert is more than the minimum
\* order amount; for any other deposit no order is placed and the deposits are
\* left as they are.
C24_ConvertOnlyAboveMinimum ==
    [][(bot_pc = "conversions" /\ deposit_at # 0 /\ bot_pc' # "down")
         => LET d == deposits[deposit_at]
                convertible == /\ d.status = TxStatus("OK")
                               /\ Unconverted(d) > MinOrderAmount
            IN  /\ placed_order' # NoOrder => convertible
                /\ ~convertible => /\ placed_order' = NoOrder
                                   /\ bot_pc' = "conversions"
                                   /\ deposits' = deposits]_vars

\* C24 witness: an order was placed for a deposit with more than the minimum
\* left, after an earlier deposit at the minimum was passed over.
C24_Witness ==
    /\ bot_pc = "polling"
    /\ placed_order # NoOrder
    /\ deposit_at = 2
    /\ DOMAIN deposits = {1, 2}
    /\ Unconverted(deposits[2]) > MinOrderAmount
    /\ deposits[1].status = TxStatus("OK")
    /\ Unconverted(deposits[1]) = MinOrderAmount
    /\ deposits[1].order_ids = <<>>

\* C25: request_withdrawal is called for a deposit only when its status is OK,
\* its withdrawal is pending, what is left to convert is below the minimum
\* order amount, and the truncated converted value, which is the amount asked
\* for, is at most the free balance of the wallet it is taken from.
C25_WithdrawOnlyWhenEligible ==
    [][withdrawal_requests' # withdrawal_requests
         => /\ Len(withdrawal_requests') = Len(withdrawal_requests) + 1
            /\ LET w == withdrawal_requests'[Len(withdrawal_requests')]
                   d == deposits[w.id]
               IN  /\ w.id = deposit_at
                   /\ d.status = TxStatus("OK")
                   /\ d.withdrawal_pending
                   /\ Unconverted(d) < MinOrderAmount
                   /\ w.amount = truncate_money(d.converted_value)
                   /\ w.amount.amount <= w.available]_vars

\* C25 witness: a withdrawal of a converted value was requested, after one
\* iteration in which the free balance was too small for it.
C25_Witness ==
    /\ bot_pc = "idle"
    /\ Len(withdrawal_requests) = 1
    /\ withdrawal_requests[1].amount.amount > 0
    /\ \E id \in DOMAIN deposits :
          /\ id # withdrawal_requests[1].id
          /\ deposits[id].status = TxStatus("OK")
          /\ deposits[id].withdrawal_pending
          /\ Unconverted(deposits[id]) < MinOrderAmount
          /\ deposits[id].converted_value.amount >= 2

\* Whether a call of request_withdrawal for deposit id was answered PENDING.
AcknowledgedIn(requests, id) ==
    \E i \in 1 .. Len(requests) : requests[i].id = id /\ requests[i].status = "PENDING"

\* C26, while the bot runs: a deposit whose withdrawal was acknowledged has
\* withdrawal_pending false in memory from the acknowledgement on, no call of
\* request_withdrawal is made for it again, and a call answered otherwise
\* leaves the flag true.
C26_FlagStaysFalse ==
    [][/\ \A id \in DOMAIN deposits' :
             AcknowledgedIn(withdrawal_requests', id) => ~deposits'[id].withdrawal_pending
       /\ withdrawal_requests' # withdrawal_requests
            => LET w == withdrawal_requests'[Len(withdrawal_requests')]
               IN  /\ ~AcknowledgedIn(withdrawal_requests, w.id)
                   /\ w.status # "PENDING" => deposits'[w.id].withdrawal_pending]_vars

\* C26: the withdrawal_pending a PENDING acknowledgement set to false is
\* persisted: whenever _setup runs again it loads the acknowledged deposit
\* with withdrawal_pending false, and while the bot runs the flag stays false
\* and no further withdrawal is requested for the deposit.
C26_AcknowledgedForGood ==
    [][/\ \A id \in DOMAIN deposits' :
             AcknowledgedIn(withdrawal_requests', id) => ~deposits'[id].withdrawal_pending
       /\ withdrawal_requests' # withdrawal_requests
            => ~AcknowledgedIn(withdrawal_requests,
                               withdrawal_requests'[Len(withdrawal_requests')].id)
       /\ StartBot
            => \A id \in DOMAIN deposits_store :
                  AcknowledgedIn(withdrawal_requests, id)
                    => /\ id \in DOMAIN deposits'
                       /\ ~deposits'[id].withdrawal_pending]_vars

\* C27: no deposit is stuck: every tracked deposit that is confirmed and whose
\* withdrawal is pending passes the test of _process_conversions for an order
\* or the test of _process_withdrawals for a withdrawal, whatever is left of
\* it to convert, the minimum order amount itself included.
C27_NoDepositStuck ==
    \A id \in DOMAIN deposits :
        (deposits[id].status = TxStatus("OK") /\ deposits[id].withdrawal_pending)
          => \/ to_be_converted(deposits[id], config.side)
             \/ original_amount_is_converted(deposits[id], config.side)

\* The deposits of the exchange that pass the address filter of line 87-88.
Listed ==
    {id \in DOMAIN exchange_deposits :
        config.from_address = "Any" \/ exchange_deposits[id].address = config.from_address}

\* C28: _update_deposits removes no tracked deposit and changes nothing of one
\* but its status, which becomes the exchange's; every listed deposit not yet
\* tracked is added with the exchange's status and amount, nothing converted,
\* no order ids and withdrawal_pending as configured, and nothing else is
\* added.
C28_UpdateDepositsFrame ==
    [][(bot_pc = "idle" /\ bot_pc' = "conversions")
         => /\ DOMAIN deposits' = DOMAIN deposits \cup Listed
            /\ \A id \in DOMAIN deposits :
                  /\ [deposits'[id] EXCEPT !.status = deposits[id].status] = deposits[id]
                  /\ deposits'[id].status =
                       IF id \in Listed THEN exchange_deposits[id].status
                       ELSE deposits[id].status
            /\ \A id \in Listed \ DOMAIN deposits :
                  /\ deposits'[id].status = exchange_deposits[id].status
                  /\ deposits'[id].original_amount.amount = exchange_deposits[id].amount
                  /\ deposits'[id].converted_amount.amount = 0
                  /\ deposits'[id].converted_value.amount = 0
                  /\ deposits'[id].order_ids = <<>>
                  /\ deposits'[id].withdrawal_pending = config.to_withdraw]_vars

\* C28 witness: _update_deposits has just run over a deposit tracked since an
\* earlier iteration, with an order to its name, and over a second deposit
C28_Witness ==
    /\ bot_pc = "conversions"
    /\ DOMAIN deposits = {1, 2}
    /\ deposit_at = 1
    /\ deposits[1].order_ids # <<>>
    /\ deposits[2].order_ids = <<>>
    /\ deposits[2].converted_amount.amount = 0

\* The side opposite to a side.
OppositeSide(side_) == IF side_ = "buy" THEN "sell" ELSE "buy"

\* C29: in a run of _algorithm an order that opens a position is placed only
\* while the stored position is closed; while it is open the only order
\* placed is one on the opposite side for the amount the position records;
\* and the position becomes closed only by such an order leaving less than
\* the minimum order amount, and open only by an order on the position's side.
C29_PositionStateMachine ==
    [][(ta_pc = "up" /\ ta_pc' = "up")
         => LET run == last_run'
                stored == IF position_store = None THEN ClosedPosition ELSE position_store
            IN  /\ stored = position
                /\ (stored.status = "open" /\ run.order_side # "none")
                     => /\ run.order_side = OppositeSide(stored.side)
                        /\ IsSerializedMoney(stored.amount)
                        /\ run.order_amount = stored.amount.repr[1]
                /\ (position.status = "open" /\ position'.status = "closed")
                     => /\ run.order_side = OppositeSide(position.side)
                        /\ run.order_amount - run.tx_amount < MinOrderAmount
                /\ (position.status = "closed" /\ position'.status = "open")
                     => /\ stored.status = "closed"
                        /\ run.order_side = position'.side
                /\ position'.status = position.status
                     => (position.status = "open" => position'.side = position.side)]_vars

\* C29 witness: a SELL position was closed in part by a BUY order, and stays
\* open for what the order left.
C29_Witness ==
    /\ ta_pc = "up"
    /\ position.status = "open"
    /\ position.side = "sell"
    /\ last_run.order_side = "buy"
    /\ last_run.tx_amount > 0
    /\ last_run.order_amount - last_run.tx_amount >= MinOrderAmount

\* ---------------------------- RelativeOrders and SimpleLimit: the claims
\* The calls of the running iteration with a given operation.
CallsOf(op) == {i \in 1 .. Len(limit_calls) : limit_calls[i].op = op}

\* C30: in an iteration of RelativeOrders._algorithm or SimpleLimit._algorithm
\* cancel_all_orders has returned before a balance is fetched and before an
\* order is placed; at most one BUY and one SELL limit order are placed, each
\* of at least the minimum order amount; and when cancel_all_orders raised no
\* order is placed.
C30_CancelBeforeOrders ==
    /\ \A i \in CallsOf("fetch_balance") \cup CallsOf("place_limit_order") :
          \E j \in CallsOf("cancel_all_orders") : j < i /\ limit_calls[j].returned
    /\ \A i \in CallsOf("place_limit_order"), j \in CallsOf("place_limit_order") :
          limit_calls[i].side = limit_calls[j].side => i = j
    /\ \A i \in CallsOf("place_limit_order") :
          /\ limit_calls[i].side \in Sides
          /\ limit_calls[i].amount.amount >= MinOrderAmount
    /\ (\E j \in CallsOf("cancel_all_orders") : ~limit_calls[j].returned)
          => CallsOf("place_limit_order") = {}

\* C30 witness: an iteration of SimpleLimit that cancelled, fetched both
\* balances and placed both orders.
C30_Witness ==
    /\ limit_pc = "done"
    /\ limit_bot.bot = "SimpleLimit"
    /\ Len(limit_calls) = 6
    /\ limit_calls[2].op = "cancel_all_orders"
    /\ limit_calls[5].side = "buy"
    /\ limit_calls[6].side = "sell"

\* ---------------------------------------------- Kraken: the ids of orders
\* The operations that return a list of orders.
ListOps == {"open_orders", "closed_orders", "closed_orders_since"}

\* The orders of a list that was returned each carry the identifier of one
\* order of the exchange's answer, and no two of them the same one.
ListCarriesIds(call) ==
    /\ \A i \in DOMAIN call.value :
          \E j \in DOMAIN call.arg : call.value[i].id = call.arg[j].txid
    /\ \A i \in DOMAIN call.value, j \in DOMAIN call.value :
          call.value[i].id = call.value[j].id => i = j

\* The part of C31 on open_orders and place_order: their orders carry the
\* exchange's identifier.
C31_OpenAndPlacedCarryId ==
    /\ (last_call.op = "open_orders" /\ last_call.error = "")
          => ListCarriesIds(last_call)
    /\ (last_call.op = "place_order" /\ last_call.error = "")
          => last_call.value.id = TxId("TX1")

\* C31: every Order the adapter returns through order(id), open_orders,
\* closed_orders, closed_orders_since or place_order carries the exchange's
\* identifier of that order as its id, never None: order(id) returns the order
\* with the id it was asked for, and each order of a list has the identifier
\* the exchange filed it under.
C31_OrdersCarryTheirId ==
    /\ (last_call.op = "order" /\ last_call.error = "")
          => last_call.value.id = order_id
    /\ (last_call.op \in ListOps /\ last_call.error = "")
          => ListCarriesIds(last_call)
    /\ (last_call.op = "place_order" /\ last_call.error = "")
          => last_call.value.id = TxId("TX1")

====
